---- MODULE Spec2Model ----
(***************************************************************************)
(* A model of the SeeqMate web client (haninnisfree/SmartGlasses): the     *)
(* dashboard's ApiService and chat session handling (dashboard-api.js,     *)
(* dashboard.js) and the home page's folder library, drag and drop and     *)
(* knowledge graph (home page script).  The backend is an external HTTP    *)
(* server; it is modelled as a nondeterministic responder.                 *)
(***************************************************************************)
EXTENDS Integers, Sequences, FiniteSets, TLC

(***************************************************************************)
(* Bounds of the model (not program constants).                            *)
(***************************************************************************)
\* chat requests issued in one run
MaxChat == 3
\* confirmed or declined "clear chat history" dialogs in one run
MaxClears == 1
\* UI operations (each a chain of backend requests) started in one run
MaxOps == 1
\* how long an untimed wait is followed, in steps of the default timeout
MaxTicks == 7
\* folder-list loads (loadUnifiedLibrary, showFoldersForCategory) in one run
MaxLoads == 2
\* drops on a category tab in one run
MaxDrops == 1
\* answered "new folder" prompts that lead to a POST in one run
MaxCreates == 1
\* nodes in an answer of the graph endpoint
MaxNodes == 4
\* highest module id handed out on the dashboard in one run
MaxModuleId == 2
\* calls of checkBackendConnection in one run (two of them automatic)
MaxChecks == 3
\* highest id a todo gets in one run (the default todos have ids 1..4)
MaxTodoId == 5
\* calls of generateReport with a folder in one run
MaxGenerations == 1
\* calls of viewReportFromHistory in one run
MaxViews == 1
\* calls of loadReportHistory awaiting their answer at one time
MaxHistoryLoads == 2
\* gestures that ask to save the new-memo form in one run
MaxGestures == 2
\* drops on the trash can in one run
MaxTrashDrops == 1
\* confirmed deletions of a category tab in one run
MaxCatDeletes == 2
\* calls of ApiService.request followed in one run
MaxRequests == 2
\* calls of showNotification in one run
MaxToasts == 2

VARIABLES
    \* ---- dashboard chat (dashboard-api.js, dashboard.js) ----
    currentChatSession,   \* the global session id, NoSession = null
    chatBarMessages,      \* the bubbles of #chatBarMessages, oldest first
    chatReqs,             \* the POST /query/ requests of sendChatMessage
    chatCount,            \* how many chat requests were issued
    clearReqs,            \* the DELETE /query/sessions/{id} requests
    clearCount,           \* how many clear dialogs were answered
    chatGen,              \* history: number of confirmed clears so far
    deliveredSession,     \* history: the first session id a /query/ answer
                          \* delivered since the session was last cleared
    serverSessions,       \* backend: number of sessions it has created
    notification,         \* the .api-notification toast, "none" = absent
    \* ---- backend requests of the UI operations ----
    ops,                  \* the started operations: their current request,
                          \* its timer and what the user was shown at the end
    \* ---- home page folder library (home page script) ----
    folderType,           \* backend: folder_type of each folder, or Absent
    tempFolders,          \* localStorage 'tempFolders'
    activeTab,            \* data-category-type of .category-tab.active
    grid,                 \* #unified-library-grid
    loads,                \* the calls of the two list loaders
    loadCount,            \* how many list loads were started
    dataTransfer,         \* the folder id carried by the drag in progress
    currentDraggedFolderId, \* window.currentDraggedFolderId
    drop,                 \* the running handleDropOnCategory call
    dropCount,            \* how many drops were handled
    create,               \* the running createNewFolder call
    createCount,          \* how many createNewFolder calls sent a POST
    shownMessage,         \* the toast of showMessage, "none" = absent
    lastArrived,          \* history: the load whose response arrived last
    \* ---- home page knowledge graph popup (home page script) ----
    isGraphLoaded,        \* the global flag of openGraphPopup
    popupOverlay,         \* style.display of #graph-popup-overlay
    graphVisualization,   \* the GraphVisualization instance, or NoGraph
    \* ---- dashboard theme and module layout (dashboard.js) ----
    dataTheme,            \* the data-theme attribute of <html>
    localTheme,           \* localStorage 'theme'
    prefersDark,          \* matchMedia('(prefers-color-scheme: dark)')
    dashboardModules,     \* the global: the modules of the two zones
    moduleIdCounter,      \* the global counter behind 'module-N'
    storedModules,        \* localStorage 'dashboardModules'
    moduleDom,            \* ids of the children of the two zone containers
    zoneState,            \* class 'empty' or 'has-modules' of the containers
    lastChosen,           \* history: the theme of the last toggle
    lastLayout,           \* history: the layout the last add or remove left
    pageReloaded,         \* history: the last step was a page load
    \* ---- chat status line and connection checks (dashboard.js) ----
    chatStatus,           \* class and text of #chatStatus
    connChecks,           \* the calls of checkBackendConnection
    connCount,            \* how many of them started
    autoTimers,           \* the two timers of the page load
    \* ---- todo list of the home page (TodoManager) ----
    todos,                \* todoManager.todos
    nextId,               \* todoManager.nextId
    userTodos,            \* localStorage 'userTodos'
    todoList,             \* what #todo-list shows: the ids, in order
    progress,             \* the text of #progress-percentage, in percent
    \* ---- login page (LoginPage.tsx) ----
    isLogin,              \* useState(true)
    showPassword,         \* useState(false)
    formData,             \* the values of the four inputs
    loginFields,          \* the inputs the last render put into the form
    loginAlert,           \* the text of the last alert of handleSubmit
    loginEvent,           \* history: the handler that ran last
    \* ---- side bars of the dashboard (dashboard.js) ----
    openBars,             \* the side bars that have the class 'open'
    withChatBar,          \* class 'with-chat-bar' of #mainContent and the toggle
    \* ---- report module of the dashboard (dashboard.js) ----
    reportScreens,        \* which of the four screens have display: block
    reportData,           \* moduleElement.reportData is set
    reportGens,           \* the calls of generateReport and where each is
    reportGenCount,       \* how many calls of generateReport got a folder
    reportViews,          \* the calls of viewReportFromHistory
    reportViewCount,      \* how many of them started
    historyList,          \* what #reportHistoryList shows
    historyPending,       \* calls of loadReportHistory awaiting GET /reports
    reportProgress,       \* width of #reportProgressFill, in percent
    reportAlert,          \* the last alert of the module
    \* ---- memo module of the dashboard (dashboard.js, dashboard-api.js) ----
    memoForm,             \* #memoNewForm: displayed, its content input, the save button
    memoSaves,            \* the calls of saveMemoFromForm that reached createMemo
    memoGesture,          \* history: the last Enter or click on the save button
    backendMemos,         \* backend: the content of the memos of the folder
    memoList,             \* what #memoList shows
    memoNotice,           \* the last notification of the memo handlers
    \* ---- trash can of the home page (home page script) ----
    trash,                \* the running handleDropOnTrash call
    trashCount,           \* how many drops on the trash can were handled
    \* ---- category tabs of the home page (home page script) ----
    localCategories,      \* localStorage 'localCategories'
    categoryTabs,         \* the tabs of .category-tabs-container, in order
    catDelete,            \* the running deleteCategoryTab call
    catDeleteCount,       \* how many deleteCategoryTab calls were confirmed
    catLoads,             \* the calls of loadAndRenderCategories and their categories
    \* ---- ApiService.request of both pages ----
    requests,             \* the calls of ApiService.request: where each is and how it ended
    \* ---- toast of showNotification (dashboard API script) ----
    toasts                \* the notifications showNotification created, oldest first

chatVars == <<currentChatSession, chatBarMessages, chatReqs, chatCount,
              clearReqs, clearCount, chatGen, deliveredSession, serverSessions,
              notification>>

apiVars == <<ops>>

libVars == <<folderType, tempFolders, activeTab, grid, loads, loadCount,
             dataTransfer, currentDraggedFolderId, drop, dropCount, create,
             createCount, shownMessage, lastArrived>>

graphVars == <<isGraphLoaded, popupOverlay, graphVisualization>>

dashVars == <<dataTheme, localTheme, prefersDark, dashboardModules,
              moduleIdCounter, storedModules, moduleDom, zoneState, lastChosen,
              lastLayout, pageReloaded>>

connVars == <<chatStatus, connChecks, connCount, autoTimers>>

todoVars == <<todos, nextId, userTodos, todoList, progress>>

loginVars == <<isLogin, showPassword, formData, loginFields, loginAlert,
               loginEvent>>

barVars == <<openBars, withChatBar>>

reportVars == <<reportScreens, reportData, reportGens, reportGenCount,
                reportViews, reportViewCount, historyList, historyPending,
                reportProgress, reportAlert>>

memoVars == <<memoForm, memoSaves, memoGesture, backendMemos, memoList,
              memoNotice>>

trashVars == <<trash, trashCount>>

catVars == <<localCategories, categoryTabs, catDelete, catDeleteCount,
             catLoads>>

reqVars == <<requests>>

toastVars == <<toasts>>

vars == <<chatVars, apiVars, libVars, graphVars, dashVars, connVars, todoVars,
          loginVars, barVars, reportVars, memoVars, trashVars, catVars,
          reqVars, toastVars>>

\* what the handlers of one part of the client leave alone
notChat == <<apiVars, libVars, graphVars, dashVars, connVars, todoVars,
             loginVars, barVars, reportVars, memoVars, trashVars, catVars,
             reqVars, toastVars>>
notApi == <<chatVars, libVars, graphVars, dashVars, connVars, todoVars,
            loginVars, barVars, reportVars, memoVars, trashVars, catVars,
            reqVars, toastVars>>
notLib == <<chatVars, apiVars, graphVars, dashVars, connVars, todoVars,
            loginVars, barVars, reportVars, memoVars, trashVars, catVars,
            reqVars, toastVars>>
notGraph == <<chatVars, apiVars, libVars, dashVars, connVars, todoVars,
              loginVars, barVars, reportVars, memoVars, trashVars, catVars,
              reqVars, toastVars>>
notDash == <<chatVars, apiVars, libVars, graphVars, connVars, todoVars,
             loginVars, barVars, reportVars, memoVars, trashVars, catVars,
             reqVars, toastVars>>
notConn == <<chatVars, apiVars, libVars, graphVars, dashVars, todoVars,
             loginVars, barVars, reportVars, memoVars, trashVars, catVars,
             reqVars, toastVars>>
notTodo == <<chatVars, apiVars, libVars, graphVars, dashVars, connVars,
             loginVars, barVars, reportVars, memoVars, trashVars, catVars,
             reqVars, toastVars>>
notLogin == <<chatVars, apiVars, libVars, graphVars, dashVars, connVars,
              todoVars, barVars, reportVars, memoVars, trashVars, catVars,
              reqVars, toastVars>>
\* what the chat handlers leave alone besides the side bars
notChatBar == <<apiVars, libVars, graphVars, dashVars, connVars, todoVars,
                loginVars, reportVars, memoVars, trashVars, catVars, reqVars,
                toastVars>>
notBar == <<chatVars, apiVars, libVars, graphVars, dashVars, connVars,
            todoVars, loginVars, reportVars, memoVars, trashVars, catVars,
            reqVars, toastVars>>
notReport == <<chatVars, apiVars, libVars, graphVars, dashVars, connVars,
               todoVars, loginVars, barVars, memoVars, trashVars, catVars,
               reqVars, toastVars>>
notMemo == <<chatVars, apiVars, libVars, graphVars, dashVars, connVars,
             todoVars, loginVars, barVars, reportVars, trashVars, catVars,
             reqVars, toastVars>>
notTrash == <<chatVars, apiVars, libVars, graphVars, dashVars, connVars,
              todoVars, loginVars, barVars, reportVars, memoVars, catVars,
              reqVars, toastVars>>
notCat == <<chatVars, apiVars, libVars, graphVars, dashVars, connVars,
            todoVars, loginVars, barVars, reportVars, memoVars, trashVars,
            reqVars, toastVars>>
notReq == <<chatVars, apiVars, libVars, graphVars, dashVars, connVars,
            todoVars, loginVars, barVars, reportVars, memoVars, trashVars,
            catVars, toastVars>>
notToast == <<chatVars, apiVars, libVars, graphVars, dashVars, connVars,
              todoVars, loginVars, barVars, reportVars, memoVars, trashVars,
              catVars, reqVars>>
\* what the handlers of the category tabs leave alone besides the library
notLibCat == <<chatVars, apiVars, graphVars, dashVars, connVars, todoVars,
               loginVars, barVars, reportVars, memoVars, trashVars, reqVars,
               toastVars>>
\* what the handlers of the trash can leave alone besides the library
notLibTrash == <<chatVars, apiVars, graphVars, dashVars, connVars, todoVars,
                 loginVars, barVars, reportVars, memoVars, catVars, reqVars,
                 toastVars>>

(***************************************************************************)
(* Strings are sequences of characters.                                    *)
(***************************************************************************)
RECURSIVE TrimLeft(_)
TrimLeft(s) == IF s # << >> /\ Head(s) = " " THEN TrimLeft(Tail(s)) ELSE s

RECURSIVE TrimRight(_)
TrimRight(s) ==
    IF s # << >> /\ s[Len(s)] = " " THEN TrimRight(SubSeq(s, 1, Len(s) - 1))
    ELSE s

\* String.prototype.trim
trim(s) == TrimRight(TrimLeft(s))

(***************************************************************************)
(* Chat: sendChatMessage, clearChatSession, clearChatHistory.              *)
(***************************************************************************)
\* let currentChatSession = null
NoSession == 0

ChatIds == 1..MaxChat

\* what the input of the chat bar may hold when a message is sent
ChatInputs == {<< >>, <<" ">>, <<"q">>, <<" ", "q", " ">>}
ClearIds == 1..MaxClears

\* a slot of chatReqs that no request uses yet
\* (after: deliveredSession when the request was sent; gen: chatGen then)
\* (outcome, ret: how the promise of sendChatMessage settled and with what;
\* userBubbles, aiBubbles: history, the bubbles appended for the request;
\* from: the caller of sendChatMessage, sendChatBarMessage or openChatBar)
NoReturn == [answer |-> << >>, sources |-> "null", confidence |-> 0,
             agent_type |-> "none", session_id |-> NoSession, strategy |-> "none"]
NoChatReq == [st |-> "unused", session_id |-> NoSession, resp |-> NoSession,
              after |-> NoSession, gen |-> 0, outcome |-> "pending",
              ret |-> NoReturn, userBubbles |-> 0, aiBubbles |-> 0,
              from |-> "none"]
NoClearReq == [st |-> "unused", target |-> NoSession, gen |-> 0]

InitChat ==
    /\ currentChatSession = NoSession
    /\ chatBarMessages = <<>>
    /\ chatReqs = [i \in ChatIds |-> NoChatReq]
    /\ chatCount = 0
    /\ clearReqs = [i \in ClearIds |-> NoClearReq]
    /\ clearCount = 0
    /\ chatGen = 0
    /\ deliveredSession = NoSession
    /\ serverSessions = 0
    /\ notification = "none"

\* a displayChatMessage that finds no #chatBarMessages and returns
displayChatMessage_NoElement(msgs, message, type, req, gen) == msgs

\* displayChatMessage(message, type): one bubble appended to #chatBarMessages.
\* req is the chat request the bubble belongs to, gen the number of clears
\* confirmed before that request was submitted (history, for the claims).
displayChatMessage(msgs, message, type, req, gen) ==
    Append(msgs, [message |-> message, type |-> type, req |-> req, gen |-> gen])

\* how many bubbles a call of displayChatMessage added
Appended(before, after) == Len(after) - Len(before)

\* requestData.session_id of sendChatMessage: the global as it is at the call
RequestSessionId == currentChatSession

\* sendChatBarMessage up to its await: trim, the blank check, the user bubble,
\* then sendChatMessage up to ApiService.post('/query/', requestData).
SendChatBarMessage(message) ==
    /\ chatCount < MaxChat
    /\ IF trim(message) = << >>
       THEN UNCHANGED vars
       ELSE /\ chatCount' = chatCount + 1
            /\ chatBarMessages' =
                 displayChatMessage(chatBarMessages, trim(message), "user",
                                    chatCount + 1, chatGen)
            /\ notification' = "info"
            /\ chatReqs' = [chatReqs EXCEPT ![chatCount + 1] =
                              [NoChatReq EXCEPT
                                 !.st = "sent", !.session_id = RequestSessionId,
                                 !.after = deliveredSession, !.gen = chatGen,
                                 !.from = "sendChatBarMessage",
                                 !.userBubbles =
                                    Appended(chatBarMessages,
                                      displayChatMessage(chatBarMessages,
                                        trim(message), "user",
                                        chatCount + 1, chatGen))]]
            /\ UNCHANGED <<currentChatSession, clearReqs, clearCount, chatGen,
                           deliveredSession, serverSessions, notChat>>

\* The backend's answer to POST /query/ for a request that carried session_id
\* sid: a request without a session gets a new session (the next one the
\* backend creates), a request with one keeps it; withId = FALSE is an answer
\* that leaves session_id out.
ServerSessionId(sid, withId) ==
    IF ~withId THEN NoSession
    ELSE IF sid = NoSession THEN serverSessions + 1 ELSE sid

\* if (response.session_id) currentChatSession = response.session_id
SessionAfterResponse(cur, resp) ==
    IF resp # NoSession THEN resp ELSE cur

\* what the caller of sendChatMessage does after its try/catch: nothing more
\* in sendChatBarMessage; openChatBar opens the chat bar
AfterChatAwait(caller) ==
    IF caller = "openChatBar"
    THEN /\ openBars' = openBars \cup {"chat"}
         /\ withChatBar' = TRUE
    ELSE UNCHANGED <<openBars, withChatBar>>

\* the object sendChatMessage returns after a successful await: the fields of
\* the response, copied
sendChatMessageReturn(response) ==
    [outcome |-> "resolved",
     ret |-> [answer |-> response.answer, sources |-> response.sources,
              confidence |-> response.confidence,
              agent_type |-> response.agent_type,
              session_id |-> response.session_id,
              strategy |-> response.strategy]]

\* a catch of sendChatMessage that lets the error through to the caller
sendChatMessageCatch_Rethrow(cur) ==
    [outcome |-> "rejected", ret |-> NoReturn]

\* the catch of sendChatMessage: the error toast, then the default answer is
\* returned (sources: null, session_id: the global as it is)
sendChatMessageCatch(cur) ==
    [outcome |-> "resolved",
     ret |-> [answer |-> <<"canned">>, sources |-> "null", confidence |-> 0,
              agent_type |-> "error", session_id |-> cur, strategy |-> "error"]]

\* the AI bubble of sendChatBarMessage / openChatBar: response.answer when the
\* await returned, the caller's own apology when it threw
CallerBubble(settled) ==
    IF settled.outcome = "resolved" THEN settled.ret.answer
    ELSE <<"callerError">>

\* the body of a 2xx answer to POST /query/
QueryResponse(resp, sources) ==
    [answer |-> <<"answer">>, sources |-> sources, confidence |-> 1,
     agent_type |-> "hybrid", session_id |-> resp, strategy |-> "search"]

\* The answer to request i arrives: sendChatMessage after a successful await
\* (session update, success toast), then the caller's AI bubble.
ChatResponse(i, withId) ==
    /\ chatReqs[i].st = "sent"
    /\ LET resp == ServerSessionId(chatReqs[i].session_id, withId)
           settled == sendChatMessageReturn(QueryResponse(resp, "list"))
       IN /\ currentChatSession' = SessionAfterResponse(currentChatSession, resp)
          /\ chatReqs' = [chatReqs EXCEPT ![i].st = "done", ![i].resp = resp,
                                          ![i].outcome = settled.outcome,
                                          ![i].ret = settled.ret,
                                          ![i].aiBubbles = @ +
                                            Appended(chatBarMessages,
                                              displayChatMessage(
                                                chatBarMessages,
                                                CallerBubble(settled), "ai",
                                                i, chatReqs[i].gen))]
          /\ deliveredSession' = IF deliveredSession = NoSession THEN resp
                                 ELSE deliveredSession
          /\ chatBarMessages' =
               displayChatMessage(chatBarMessages, CallerBubble(settled), "ai",
                                  i, chatReqs[i].gen)
    /\ serverSessions' = IF chatReqs[i].session_id = NoSession
                         THEN serverSessions + 1 ELSE serverSessions
    /\ notification' = "success"
    /\ AfterChatAwait(chatReqs[i].from)
    /\ UNCHANGED <<chatCount, clearReqs, clearCount, chatGen, notChatBar>>

\* what makes the await of ApiService.post('/query/') throw: a non-2xx status,
\* a network failure, the abort of the timeout, a body that is not JSON
QueryErrors == {"http", "network", "abort", "json"}

\* sendChatMessage's catch: the request failed with error, which the catch
\* only logs; the canned answer is returned and shown by the caller, the
\* session is left alone.
ChatFail(i, error) ==
    /\ chatReqs[i].st = "sent"
    /\ notification' = "error"
    /\ LET settled == sendChatMessageCatch(currentChatSession)
       IN /\ chatBarMessages' =
               displayChatMessage(chatBarMessages, CallerBubble(settled), "ai",
                                  i, chatReqs[i].gen)
          /\ chatReqs' = [chatReqs EXCEPT ![i].st = "failed",
                                          ![i].outcome = settled.outcome,
                                          ![i].ret = settled.ret,
                                          ![i].aiBubbles = @ +
                                            Appended(chatBarMessages,
                                              displayChatMessage(
                                                chatBarMessages,
                                                CallerBubble(settled), "ai",
                                                i, chatReqs[i].gen))]
    /\ AfterChatAwait(chatReqs[i].from)
    /\ UNCHANGED <<currentChatSession, chatCount, clearReqs, clearCount, chatGen,
                   deliveredSession, serverSessions, notChatBar>>

\* clearChatHistory: the confirm dialog, the wipe of the bubbles, then
\* clearChatSession() up to its await (it returns at once without a session).
ClearChatHistory(confirmed) ==
    /\ clearCount < MaxClears
    /\ clearCount' = clearCount + 1
    /\ UNCHANGED notChat
    /\ IF ~confirmed
       THEN UNCHANGED <<currentChatSession, chatBarMessages, chatReqs, chatCount,
                        clearReqs, chatGen, deliveredSession, serverSessions,
                        notification>>
       ELSE /\ chatBarMessages' = <<>>
            /\ chatGen' = chatGen + 1
            /\ clearReqs' =
                 IF currentChatSession = NoSession
                 THEN [clearReqs EXCEPT ![clearCount + 1] =
                         [st |-> "skipped", target |-> NoSession,
                          gen |-> chatGen + 1]]
                 ELSE [clearReqs EXCEPT ![clearCount + 1] =
                         [st |-> "sent", target |-> currentChatSession,
                          gen |-> chatGen + 1]]
            /\ UNCHANGED <<currentChatSession, chatReqs, chatCount,
                           deliveredSession, serverSessions, notification>>

\* clearChatSession after its await succeeded (called without an argument).
ClearResolve(d) ==
    /\ clearReqs[d].st = "sent"
    /\ currentChatSession' = NoSession
    /\ notification' = "info"
    /\ deliveredSession' = NoSession
    /\ clearReqs' = [clearReqs EXCEPT ![d].st = "done"]
    /\ UNCHANGED <<chatBarMessages, chatReqs, chatCount, clearCount, chatGen,
                   serverSessions, notChat>>

\* clearChatSession's catch.
ClearFail(d) ==
    /\ clearReqs[d].st = "sent"
    /\ notification' = "error"
    /\ clearReqs' = [clearReqs EXCEPT ![d].st = "failed"]
    /\ UNCHANGED <<currentChatSession, chatBarMessages, chatReqs, chatCount,
                   clearCount, chatGen, deliveredSession, serverSessions, notChat>>

NextChat ==
    \/ \E message \in ChatInputs : SendChatBarMessage(message)
    \/ \E i \in ChatIds, withId \in BOOLEAN : ChatResponse(i, withId)
    \/ \E i \in ChatIds, error \in QueryErrors : ChatFail(i, error)
    \/ \E confirmed \in BOOLEAN : ClearChatHistory(confirmed)
    \/ \E d \in ClearIds : ClearResolve(d)
    \/ \E d \in ClearIds : ClearFail(d)

(***************************************************************************)
(* Backend requests: ApiService.request and its AbortController timer, the *)
(* raw fetch calls of the home page, and the operations that issue them.   *)
(***************************************************************************)
\* API_CONFIG.TIMEOUT
API_TIMEOUT == 30000
\* postLongTask(endpoint, data, timeoutMs = 120000), /recommend/from-file
LONG_TASK_TIMEOUT == 120000
\* postLongTask('/reports/generate', reportRequest, 180000)
REPORT_TIMEOUT == 180000

OpIds == 1..MaxOps

\* ApiService.get / post: request(endpoint, {method, body}); no timeout given
ApiGet == [method |-> "GET"]
ApiPost == [method |-> "POST"]
\* ApiService.put / delete: request(endpoint, {method, body}) and
\* request(endpoint, {method}); no timeout given
ApiPut == [method |-> "PUT"]
ApiDelete == [method |-> "DELETE"]
\* ApiService.postLongTask: request(endpoint, {method, body, timeout: timeoutMs})
PostLongTask(timeoutMs) == [method |-> "POST", timeout |-> timeoutMs]

\* a config whose default timeout is not replaced by the options
ConfigTimeout_DefaultWins(options) == API_TIMEOUT

\* config = { timeout: API_CONFIG.TIMEOUT, headers, ...options }: a timeout
\* among the options replaces the default
ConfigTimeout(options) ==
    IF "timeout" \in DOMAIN options THEN options.timeout ELSE API_TIMEOUT

\* (mutant of ApiRequest: the abort timer is never armed)
ApiRequest_NoTimer(options) ==
    [via |-> "api", timeout |-> ConfigTimeout(options), timer |-> FALSE,
     elapsed |-> 0, phase |-> "fetch", ok |-> TRUE]

\* ApiService.request up to "await fetch": the abort timer is armed with
\* config.timeout and the fetch is started with the controller's signal.
ApiRequest(options) ==
    [via |-> "api", timeout |-> ConfigTimeout(options), timer |-> TRUE,
     elapsed |-> 0, phase |-> "fetch", ok |-> TRUE]

\* a bare fetch(url, ...) call: no AbortController, no timer
RawFetch ==
    [via |-> "raw", timeout |-> 0, timer |-> FALSE,
     elapsed |-> 0, phase |-> "fetch", ok |-> TRUE]

NoRequest ==
    [via |-> "none", timeout |-> 0, timer |-> FALSE,
     elapsed |-> 0, phase |-> "none", ok |-> TRUE]

\* The operations and the requests each issues, in order.
\*   keywords    extractKeywords               POST /keywords/from-file
\*   recommend   generateFolderRecommendations POST /recommend/from-file
\*   report      generateReport                GET files, POST generate, GET report
\*   folderDocs  loadFolderDocuments           GET /folders/{id}/documents
\*   sessionInfo getChatSessionInfo            GET /query/sessions/{id}
\*   graph       GraphVisualization.loadGraphData   fetch(graph url)
\*   upload      UserBoxManager.uploadPdfFile       fetch(upload url)
\*   updateMemo  updateMemo                    PUT /memos/{id}
\*   deleteReport deleteReportFromHistory      DELETE /reports/{id}
OpNames == {"keywords", "recommend", "report", "folderDocs", "sessionInfo",
            "graph", "upload", "updateMemo", "deleteReport"}

NumSteps(op) == IF op = "report" THEN 3 ELSE 1

OpRequest(op, step) ==
    CASE op = "keywords"    -> ApiRequest(ApiPost)
      [] op = "recommend"   -> ApiRequest(PostLongTask(LONG_TASK_TIMEOUT))
      [] op = "report"      -> IF step = 2 THEN ApiRequest(PostLongTask(REPORT_TIMEOUT))
                               ELSE ApiRequest(ApiGet)
      [] op = "folderDocs"  -> ApiRequest(ApiGet)
      [] op = "sessionInfo" -> ApiRequest(ApiGet)
      [] op = "graph"       -> RawFetch
      [] op = "upload"      -> RawFetch
      [] op = "updateMemo"  -> ApiRequest(ApiPut)
      [] op = "deleteReport" -> ApiRequest(ApiDelete)

\* What each operation's catch block shows for an error of kind err
\* ("abort": AbortError of the timer; "http": non-2xx; "network": fetch
\* rejected; "body": the body could not be read or parsed; "logic": an
\* Error the operation throws itself on an unusable answer).
\* (mutant of extractKeywordsCatch: the failure is only logged)
extractKeywordsCatch_Silent(err) == "none"
extractKeywordsCatch(err) == "toast_generic"
\* (mutant of generateFolderRecommendationsCatch: no AbortError branch)
generateFolderRecommendationsCatch_NoAbortCase(err) == "toast_generic"
generateFolderRecommendationsCatch(err) ==
    IF err = "abort" THEN "toast_timeout" ELSE "toast_generic"
generateReportCatch(err) ==
    IF err = "abort" THEN "alert_timeout" ELSE "alert_generic"
loadFolderDocumentsCatch(err) == "inline_generic"
getChatSessionInfoCatch(err) == "none"
loadGraphDataCatch(err) == "inline_generic"
uploadPdfFileCatch(err) == "toast_generic"
\* showNotification(error.message || '...', 'error'), then the error is
\* thrown on
updateMemoCatch(err) == "toast_generic"
\* alert('...: ' + (error.message || '...'))
deleteReportFromHistoryCatch(err) == "alert_generic"

OpCatch(op, err) ==
    CASE op = "keywords"    -> extractKeywordsCatch(err)
      [] op = "recommend"   -> generateFolderRecommendationsCatch(err)
      [] op = "report"      -> generateReportCatch(err)
      [] op = "folderDocs"  -> loadFolderDocumentsCatch(err)
      [] op = "sessionInfo" -> getChatSessionInfoCatch(err)
      [] op = "graph"       -> loadGraphDataCatch(err)
      [] op = "upload"      -> uploadPdfFileCatch(err)
      [] op = "updateMemo"  -> updateMemoCatch(err)
      [] op = "deleteReport" -> deleteReportFromHistoryCatch(err)

\* What each operation shows when its last request succeeded.
OpSuccess(op) ==
    CASE op \in {"keywords", "recommend", "upload", "updateMemo"}
                                                     -> "toast_success"
      [] op \in {"report", "folderDocs", "graph", "deleteReport"}
                                                     -> "inline_result"
      [] op = "sessionInfo"                          -> "none"

NoOp == [op |-> "none", status |-> "idle", step |-> 0, req |-> NoRequest,
         err |-> "none", shown |-> "none"]

InitApi == ops = [s \in OpIds |-> NoOp]

\* The user (or the page) starts operation op; its first request goes out.
StartOp(s, op) ==
    /\ UNCHANGED notApi
    /\ ops[s].status = "idle"
    /\ \A t \in OpIds : t < s => ops[t].status # "idle"
    /\ ops' = [ops EXCEPT ![s] = [op |-> op, status |-> "running", step |-> 1,
                                  req |-> OpRequest(op, 1),
                                  err |-> "none", shown |-> "none"]]

\* The operation's catch block runs for an error of kind err.
OpFails(s, err) ==
    [ops EXCEPT ![s].status = "done", ![s].err = err,
                ![s].shown = OpCatch(ops[s].op, err),
                ![s].req.phase = "settled", ![s].req.timer = FALSE]

\* The current request returned its data: the next request of the operation
\* goes out, or the operation shows its result.
OpContinues(s) ==
    IF ops[s].step < NumSteps(ops[s].op)
    THEN [ops EXCEPT ![s].step = ops[s].step + 1,
                     ![s].req = OpRequest(ops[s].op, ops[s].step + 1)]
    ELSE [ops EXCEPT ![s].status = "done", ![s].shown = OpSuccess(ops[s].op),
                     ![s].req.phase = "settled"]

Running(s) == ops[s].status = "running"

\* the requests whose abort timer is armed and whose fetch is still pending
ArmedTimers == {s \in OpIds : Running(s) /\ ops[s].req.timer /\ ops[s].req.phase = "fetch"}

MinOf(S) == CHOOSE x \in S : \A y \in S : x <= y

\* Time passes: by the default timeout, or less when a timer is due sooner
\* (a due setTimeout callback runs before more time passes).
TickDelta ==
    MinOf({API_TIMEOUT} \cup {ops[s].req.timeout - ops[s].req.elapsed : s \in ArmedTimers})

Tick ==
    /\ UNCHANGED notApi
    /\ \E s \in OpIds : Running(s)
    /\ TickDelta > 0
    /\ \A s \in OpIds : Running(s) => ops[s].req.elapsed < MaxTicks * API_TIMEOUT
    /\ ops' = [s \in OpIds |->
                IF Running(s)
                THEN [ops[s] EXCEPT !.req.elapsed = ops[s].req.elapsed + TickDelta]
                ELSE ops[s]]

\* setTimeout(() => controller.abort(), config.timeout) fires while the fetch
\* is pending: fetch rejects with AbortError, request rethrows it.
TimerFires(s) ==
    /\ UNCHANGED notApi
    /\ s \in ArmedTimers
    /\ ops[s].req.elapsed >= ops[s].req.timeout
    /\ ops' = OpFails(s, "abort")

\* fetch rejects: the server cannot be reached (TypeError: Failed to fetch).
FetchRejects(s) ==
    /\ UNCHANGED notApi
    /\ Running(s) /\ ops[s].req.phase = "fetch"
    /\ ops' = OpFails(s, "network")

\* fetch resolves with the response's status and headers; ApiService.request
\* clears its timer, then reads the body (response.text() of an error
\* response, response.json() otherwise).  loadGraphData throws on a non-2xx
\* status without reading the body; uploadPdfFile reads it in both cases.
FetchResolves(s, ok) ==
    /\ UNCHANGED notApi
    /\ Running(s) /\ ops[s].req.phase = "fetch"
    /\ ops' = IF ~ok /\ ops[s].op = "graph"
              THEN OpFails(s, "http")
              ELSE [ops EXCEPT ![s].req.phase = "body", ![s].req.ok = ok,
                               ![s].req.timer = FALSE]

\* The body has been read.  data: "good" a usable answer, "empty" valid JSON
\* without the content the operation needs, "bad" unreadable or not JSON.
BodyDone(s, data) ==
    /\ UNCHANGED notApi
    /\ Running(s) /\ ops[s].req.phase = "body"
    /\ LET o == ops[s] IN
       ops' =
         IF o.req.via = "api" /\ ~o.req.ok THEN OpFails(s, "http")
         ELSE IF data = "bad" THEN OpFails(s, "body")
         ELSE IF o.op = "upload" /\ (~o.req.ok \/ data = "empty") THEN OpFails(s, "logic")
         ELSE IF o.op = "report" /\ data = "empty" THEN OpFails(s, "logic")
         ELSE OpContinues(s)

NextApi ==
    \/ \E s \in OpIds, op \in OpNames : StartOp(s, op)
    \/ Tick
    \/ \E s \in OpIds : TimerFires(s)
    \/ \E s \in OpIds : FetchRejects(s)
    \/ \E s \in OpIds, ok \in BOOLEAN : FetchResolves(s, ok)
    \/ \E s \in OpIds, data \in {"good", "empty", "bad"} : BodyDone(s, data)

(***************************************************************************)
(* Home page folder library: createNewFolder, the two list loaders         *)
(* (loadUnifiedLibrary, showFoldersForCategory), renderUnifiedFolders and  *)
(* drag and drop of a folder onto a category tab.                          *)
(***************************************************************************)
\* the folder ids the backend may hold (24-digit hexadecimal ObjectIds)
AllFolders == {"f1", "f2"}
\* a folder id the backend does not hold (yet)
Absent == "absent"
\* the category tabs: getLocalCategories always has 'all' in front
Tabs == {"all", "general", "reading"}
NoTab == "none"
\* null, as held by window.currentDraggedFolderId between drags
Null == "null"

\* answers to prompt(): strings over a blank and a letter
FolderNames == {<< >>, <<" ">>, <<"a">>, <<" ", "a">>}

\* /^[0-9a-fA-F]{24}$/ : backend ids match, 'temp_...' ids do not
objectIdRegex(folderId) == folderId \in AllFolders

\* the list GET /folders/ returns (limits 20, 50 and 100 are above the
\* number of folders followed here); isTemporary is undefined on these
BackendFolders ==
    {[folder_id |-> f, folder_type |-> folderType[f], isTemporary |-> FALSE] :
        f \in {x \in AllFolders : folderType[x] # Absent}}

\* JSON.parse(localStorage.getItem('tempFolders') || '[]')
LocalTempFolders == {tempFolders[i] : i \in 1..Len(tempFolders)}

\* folders.filter(f => f.folder_type === categoryType || f.type === categoryType)
FilterByType(folders, categoryType) ==
    {f \in folders : f.folder_type = categoryType}

LoadIds == 1..MaxLoads

\* the loading placeholder both loaders write before their first request
LoadingGrid(l) == [kind |-> "loading", items |-> {}, by |-> l]

\* the library-error placeholder of the loaders' catch blocks
ErrorGrid(l) == [kind |-> "error", items |-> {}, by |-> l]

renderUnifiedFolders_IfLatest(folders, l) ==
    IF l # loadCount THEN grid
    ELSE IF folders = {}
    THEN [kind |-> "empty", items |-> {}, by |-> l]
    ELSE [kind |-> "folders",
          items |-> {[id |-> f.folder_id, temporary |-> f.isTemporary] :
                        f \in folders},
          by |-> l]

\* renderUnifiedFolders: the empty placeholder, or one .library-item per
\* folder, with class temporary-folder when folder.isTemporary
renderUnifiedFolders(folders, l) ==
    IF folders = {}
    THEN [kind |-> "empty", items |-> {}, by |-> l]
    ELSE [kind |-> "folders",
          items |-> {[id |-> f.folder_id, temporary |-> f.isTemporary] :
                        f \in folders},
          by |-> l]

NoLoad == [st |-> "unused", fn |-> "none", cat |-> NoTab, gets |-> 0]
\* failed, activeAt and reload are history: the update requests that
\* failed, the tab active when the update succeeded and the category load
\* started then
NoDrop == [st |-> "idle", folderId |-> Null, categoryType |-> NoTab,
           attempt |-> 0, ok |-> FALSE, failed |-> 0, activeAt |-> NoTab,
           reload |-> 0]
NoCreate == [st |-> "idle", folderName |-> << >>, categoryType |-> NoTab,
             load |-> 0]

\* The page once the loads of DOMContentLoaded and of earlier clicks have
\* settled: one folder at the backend, some tab active ('all' right after
\* the page load) and the grid showing the folders of that tab.
InitLib ==
    /\ folderType = [f \in AllFolders |-> IF f = "f1" THEN "general" ELSE Absent]
    /\ tempFolders = << >>
    /\ activeTab \in Tabs
    /\ loadCount = 0
    /\ grid = renderUnifiedFolders(
                  IF activeTab = "all" THEN BackendFolders
                  ELSE FilterByType(BackendFolders, activeTab), 0)
    /\ loads = [l \in LoadIds |-> NoLoad]
    /\ dataTransfer = Null
    /\ currentDraggedFolderId = Null
    /\ drop = NoDrop
    /\ dropCount = 0
    /\ create = NoCreate
    /\ createCount = 0
    /\ shownMessage = "none"
    /\ lastArrived = 0

\* showFoldersForCategory up to its first await: the tab is marked active,
\* the grid shows the loading placeholder and the GET is sent
CategoryLoad(categoryType) ==
    [st |-> "pending", fn |-> "category", cat |-> categoryType, gets |-> 1]

\* loadUnifiedLibrary up to its await
UnifiedLoad == [st |-> "pending", fn |-> "unified", cat |-> NoTab, gets |-> 1]

\* the list loads the running handlers will still start (the run is cut
\* so that every started handler can finish within MaxLoads)
ReservedLoads ==
    (IF drop.st = "updating" THEN 2 ELSE 0)
    + (CASE create.st = "posting" -> 2
         [] create.st = "awaitLibrary" -> 1
         [] OTHER -> 0)

\* a click on a category tab
ShowFoldersForCategory(categoryType) ==
    /\ loadCount + ReservedLoads < MaxLoads
    /\ loadCount' = loadCount + 1
    /\ loads' = [loads EXCEPT ![loadCount + 1] = CategoryLoad(categoryType)]
    /\ activeTab' = categoryType
    /\ grid' = LoadingGrid(loadCount + 1)
    /\ UNCHANGED <<folderType, tempFolders, dataTransfer,
                   currentDraggedFolderId, drop, dropCount, create,
                   createCount, shownMessage, lastArrived>>
    /\ UNCHANGED notLib

\* What the awaiting loader does with the answer to its GET: the new state
\* of the call ("done" after an answer was rendered, "failed" after the
\* catch block ran) and the grid it leaves.
\*   loadUnifiedLibrary: the folders and the temporary folders, or on
\*     failure the temporary folders if there are any, else the error;
\*   showFoldersForCategory('all'): the same, but an empty list on failure;
\*   showFoldersForCategory(type): the answer filtered by type; when the
\*     filtered GET fails an unfiltered GET is sent, and when that one fails
\*     the outer catch writes the error.
LoadResult(l, ok, filtered) ==
    LET ld == loads[l]
        response == IF filtered THEN FilterByType(BackendFolders, ld.cat)
                    ELSE BackendFolders
        Done(g) == [load |-> [ld EXCEPT !.st = "done"], grid |-> g]
        Gave(g) == [load |-> [ld EXCEPT !.st = "failed"], grid |-> g]
    IN  CASE ld.fn = "unified" ->
               IF ok
               THEN Done(renderUnifiedFolders(
                            BackendFolders \cup LocalTempFolders, l))
               ELSE IF Len(tempFolders) > 0
                    THEN Gave(renderUnifiedFolders(LocalTempFolders, l))
                    ELSE Gave(ErrorGrid(l))
          [] ld.fn = "category" /\ ld.cat = "all" ->
               IF ok
               THEN Done(renderUnifiedFolders(
                            BackendFolders \cup LocalTempFolders, l))
               ELSE Gave(renderUnifiedFolders(LocalTempFolders, l))
          [] ld.fn = "category" /\ ld.cat # "all" /\ ld.st = "pending" ->
               IF ok
               THEN Done(renderUnifiedFolders(
                            FilterByType(response, ld.cat), l))
               ELSE [load |-> [ld EXCEPT !.st = "fallback", !.gets = @ + 1],
                     grid |-> grid]
          [] ld.fn = "category" /\ ld.cat # "all" /\ ld.st = "fallback" ->
               IF ok
               THEN Done(renderUnifiedFolders(
                            FilterByType(BackendFolders, ld.cat), l))
               ELSE Gave(ErrorGrid(l))

\* The answer (or failure) of the GET a loader awaits arrives; when the
\* loader was awaited by createNewFolder, that handler resumes.
LoadArrives(l, ok, filtered) ==
    /\ l \in LoadIds
    /\ loads[l].st \in {"pending", "fallback"}
    /\ lastArrived' = l
    /\ LET res == LoadResult(l, ok, filtered)
           resumes == res.load.st \in {"done", "failed"} /\ create.load = l
           l2 == loadCount + 1
       IN  IF resumes /\ create.st = "awaitLibrary"
           THEN \* line 1010: await showFoldersForCategory(categoryType)
                /\ loads' = [loads EXCEPT ![l] = res.load,
                                ![l2] = CategoryLoad(create.categoryType)]
                /\ loadCount' = l2
                /\ activeTab' = create.categoryType
                /\ grid' = LoadingGrid(l2)
                /\ create' = [create EXCEPT !.st = "awaitCategory",
                                            !.load = l2]
                /\ UNCHANGED shownMessage
           ELSE IF resumes /\ create.st = "awaitCategory"
           THEN \* line 1017: showSuccessMessage
                /\ loads' = [loads EXCEPT ![l] = res.load]
                /\ grid' = res.grid
                /\ create' = [create EXCEPT !.st = "done", !.load = 0]
                /\ shownMessage' = "success"
                /\ UNCHANGED <<loadCount, activeTab>>
           ELSE IF resumes /\ create.st = "awaitTempLibrary"
           THEN \* line 1045: showErrorMessage
                /\ loads' = [loads EXCEPT ![l] = res.load]
                /\ grid' = res.grid
                /\ create' = [create EXCEPT !.st = "savedTemp", !.load = 0]
                /\ shownMessage' = "error"
                /\ UNCHANGED <<loadCount, activeTab>>
           ELSE /\ loads' = [loads EXCEPT ![l] = res.load]
                /\ grid' = res.grid
                /\ UNCHANGED <<loadCount, activeTab, create, shownMessage>>
    /\ UNCHANGED <<folderType, tempFolders, dataTransfer,
                   currentDraggedFolderId, drop, dropCount, createCount>>
    /\ UNCHANGED notLib

\* dragstart on a .library-item of the grid: ids that are not ObjectIds are
\* refused (preventDefault), the others go to the dataTransfer and to the
\* global backup
HandleDragStart(folderId) ==
    /\ dropCount < MaxDrops
    /\ dataTransfer = Null
    /\ grid.kind = "folders"
    /\ folderId \in {i.id : i \in grid.items}
    /\ IF objectIdRegex(folderId)
       THEN /\ dataTransfer' = folderId
            /\ currentDraggedFolderId' = folderId
       ELSE UNCHANGED <<dataTransfer, currentDraggedFolderId>>
    /\ UNCHANGED <<folderType, tempFolders, activeTab, grid, loads, loadCount,
                   drop, dropCount, create, createCount, shownMessage, lastArrived>>
    /\ UNCHANGED notLib

\* the six requests handleDropOnCategory tries in turn
updateMethods ==
    << [method |-> "PATCH", endpoint |-> "/folders/{id}", field |-> "folder_type"],
       [method |-> "PATCH", endpoint |-> "/api/folders/{id}", field |-> "folder_type"],
       [method |-> "PATCH", endpoint |-> "/folders/{id}", field |-> "type"],
       [method |-> "PUT", endpoint |-> "/folders/{id}", field |-> "folder_type"],
       [method |-> "PUT", endpoint |-> "/api/folders/{id}", field |-> "folder_type"],
       [method |-> "PUT", endpoint |-> "/folders/{id}", field |-> "type"] >>

\* drop on a category tab, up to the first await: the folder id is taken
\* from the dataTransfer or else from the global backup; without one an
\* error toast is shown, with one the first update request is sent.  The
\* drop of something that is not a folder carries no folder id.
HandleDropOnCategory(categoryType) ==
    /\ dropCount < MaxDrops
    /\ drop.st \in {"idle", "done"}
    /\ loadCount + ReservedLoads + 2 <= MaxLoads
    /\ dropCount' = dropCount + 1
    /\ dataTransfer' = Null
    /\ LET folderId == IF dataTransfer # Null THEN dataTransfer
                       ELSE currentDraggedFolderId
       IN  IF folderId = Null
           THEN /\ shownMessage' = "error"
                /\ UNCHANGED drop
           ELSE /\ drop' = [st |-> "updating", folderId |-> folderId,
                            categoryType |-> categoryType, attempt |-> 1,
                            ok |-> FALSE, failed |-> 0, activeAt |-> NoTab,
                            reload |-> 0]
                /\ UNCHANGED shownMessage
    /\ UNCHANGED <<folderType, tempFolders, activeTab, grid, loads, loadCount,
                   currentDraggedFolderId, create, createCount, lastArrived>>
    /\ UNCHANGED notLib

\* the category handleDropOnCategory reloads after a successful update: the
\* one of the tab that is active, not the one dropped on
activeCategoryType_DropTarget(active, categoryType) == categoryType
activeCategoryType(active, categoryType) == active

\* the request the loop of handleDropOnCategory sends after a failed one
NextAttempt_RetrySame(attempt) == attempt
NextAttempt(attempt) == attempt + 1

\* The update request in flight is answered.  Success ends the loop: the
\* backend has set the type, a success toast is shown, loadFolders() and
\* showFoldersForCategory(active tab) are both started without await, and
\* the finally block clears the global.  Failure sends the next of the six
\* requests, or after the sixth shows the error toast.
UpdateSettles(ok) ==
    /\ drop.st = "updating"
    /\ IF ok
       THEN LET l1 == loadCount + 1
                l2 == loadCount + 2
                reloaded == activeCategoryType(activeTab, drop.categoryType)
            IN  /\ folderType' = [folderType EXCEPT
                                    ![drop.folderId] = drop.categoryType]
                /\ shownMessage' = "success"
                /\ drop' = [drop EXCEPT !.st = "done", !.ok = TRUE,
                                        !.activeAt = activeTab,
                                        !.reload = IF activeTab # NoTab
                                                   THEN l2 ELSE 0]
                /\ currentDraggedFolderId' = Null
                /\ IF activeTab # NoTab
                   THEN /\ loads' = [loads EXCEPT ![l1] = UnifiedLoad,
                                        ![l2] = CategoryLoad(reloaded)]
                        /\ loadCount' = l2
                        /\ activeTab' = reloaded
                        /\ grid' = LoadingGrid(l2)
                   ELSE /\ loads' = [loads EXCEPT ![l1] = UnifiedLoad]
                        /\ loadCount' = l1
                        /\ grid' = LoadingGrid(l1)
                        /\ UNCHANGED activeTab
       ELSE IF NextAttempt(drop.attempt) <= Len(updateMethods)
       THEN /\ drop' = [drop EXCEPT !.attempt = NextAttempt(drop.attempt),
                                    !.failed = @ + 1]
            /\ UNCHANGED <<folderType, shownMessage, currentDraggedFolderId, loads,
                           loadCount, activeTab, grid>>
       ELSE /\ drop' = [drop EXCEPT !.st = "done", !.failed = @ + 1]
            /\ shownMessage' = "error"
            /\ currentDraggedFolderId' = Null
            /\ UNCHANGED <<folderType, loads, loadCount, activeTab, grid>>
    /\ UNCHANGED <<tempFolders, dataTransfer, dropCount, create, createCount,
                   lastArrived>>
    /\ UNCHANGED notLib

\* The names the catch block of createNewFolder can refer to: folderName
\* (declared in the function body) and error.  activeTab and categoryType
\* are const declarations of the try block and end with it.
CatchScope == {"folderName", "error"}

\* createNewFolder up to its await: a cancelled prompt (null) or a blank
\* answer returns at once, otherwise POST /folders/ is sent with the type
\* of the active tab ('general' without one)
CreateNewFolder(cancelled, folderName) ==
    IF cancelled \/ trim(folderName) = << >>
    THEN UNCHANGED vars
    ELSE /\ createCount < MaxCreates
         /\ create.st \notin {"posting", "awaitLibrary", "awaitCategory",
                              "awaitTempLibrary"}
         /\ loadCount + ReservedLoads + 2 <= MaxLoads
         /\ \E f \in AllFolders : folderType[f] = Absent
         /\ createCount' = createCount + 1
         /\ create' = [st |-> "posting", folderName |-> folderName,
                       categoryType |-> IF activeTab # NoTab THEN activeTab
                                        ELSE "general",
                       load |-> 0]
         /\ UNCHANGED <<folderType, tempFolders, activeTab, grid, loads,
                        loadCount, dataTransfer, currentDraggedFolderId, drop,
                        dropCount, shownMessage, lastArrived>>
         /\ UNCHANGED notLib

\* POST /folders/ succeeds: the backend holds the new folder; with a
\* folder_id in the answer the handler goes on to await loadUnifiedLibrary(),
\* without one it ends
CreateResolves(withId) ==
    /\ create.st = "posting"
    /\ LET f == CHOOSE x \in AllFolders : folderType[x] = Absent
           l == loadCount + 1
       IN  /\ folderType' = [folderType EXCEPT ![f] = create.categoryType]
           /\ IF withId
              THEN /\ loads' = [loads EXCEPT ![l] = UnifiedLoad]
                   /\ loadCount' = l
                   /\ grid' = LoadingGrid(l)
                   /\ create' = [create EXCEPT !.st = "awaitLibrary",
                                               !.load = l]
              ELSE /\ create' = [create EXCEPT !.st = "done"]
                   /\ UNCHANGED <<loads, loadCount, grid>>
    /\ UNCHANGED <<tempFolders, activeTab, dataTransfer,
                   currentDraggedFolderId, drop, dropCount, createCount,
                   shownMessage, lastArrived>>
    /\ UNCHANGED notLib

\* POST /folders/ fails and the catch block runs.  Building the tempFolder
\* object evaluates activeTab (line 1027), which is not in scope there:
\* ReferenceError is thrown out of the catch block, before tempFolders is
\* read, and the promise of createNewFolder rejects with nothing stored,
\* rendered or shown.  Were the name in scope, the record would be appended
\* to tempFolders and loadUnifiedLibrary() awaited.
CreateFails ==
    /\ create.st = "posting"
    /\ IF "activeTab" \in CatchScope
       THEN LET l == loadCount + 1
                tempFolder == [folder_id |-> "temp_" \o ToString(createCount),
                               title |-> trim(create.folderName),
                               folder_type |-> create.categoryType,
                               isTemporary |-> TRUE]
            IN  /\ tempFolders' = Append(tempFolders, tempFolder)
                /\ loads' = [loads EXCEPT ![l] = UnifiedLoad]
                /\ loadCount' = l
                /\ grid' = LoadingGrid(l)
                /\ create' = [create EXCEPT !.st = "awaitTempLibrary",
                                            !.load = l]
       ELSE /\ create' = [create EXCEPT !.st = "threw"]
            /\ UNCHANGED <<tempFolders, loads, loadCount, grid>>
    /\ UNCHANGED <<folderType, activeTab, dataTransfer,
                   currentDraggedFolderId, drop, dropCount, createCount,
                   shownMessage, lastArrived>>
    /\ UNCHANGED notLib

\* the library with its tabs and drag and drop
NextLib ==
    \/ \E categoryType \in Tabs : ShowFoldersForCategory(categoryType)
    \/ \E l \in LoadIds, ok \in BOOLEAN, filtered \in BOOLEAN :
           LoadArrives(l, ok, filtered)
    \/ \E folderId \in AllFolders : HandleDragStart(folderId)
    \/ \E categoryType \in Tabs : HandleDropOnCategory(categoryType)
    \/ \E ok \in BOOLEAN : UpdateSettles(ok)

\* the library with its tabs and the "+" button
NextCreate ==
    \/ \E categoryType \in Tabs : ShowFoldersForCategory(categoryType)
    \/ \E l \in LoadIds, ok \in BOOLEAN, filtered \in BOOLEAN :
           LoadArrives(l, ok, filtered)
    \/ \E cancelled \in BOOLEAN, folderName \in FolderNames :
           CreateNewFolder(cancelled, folderName)
    \/ \E withId \in BOOLEAN : CreateResolves(withId)
    \/ CreateFails

(***************************************************************************)
(* Home page knowledge graph: openGraphPopup, closeGraphPopup and          *)
(* GraphVisualization.loadGraphData.                                       *)
(***************************************************************************)
\* the answers of GET /graph-hierarchical/graph: up to MaxNodes nodes and
\* edges between them (a missing nodes or edges field reads as [])
GraphData ==
    UNION {[nodes : {1..k}, edges : SUBSET {e \in (1..k) \X (1..k) : e[1] < e[2]}] :
              k \in 0..MaxNodes}

\* new GraphVisualization('graph-container') followed by loadGraphData()
\* up to its await: showLoading(true) and the fetch
NewGraphVisualization ==
    [load |-> "pending", nodes |-> {}, links |-> {}, rendered |-> FALSE,
     loading |-> TRUE, error |-> "none"]

\* let graphVisualization = null
NoGraph ==
    [load |-> "none", nodes |-> {}, links |-> {}, rendered |-> FALSE,
     loading |-> FALSE, error |-> "none"]

InitGraph ==
    /\ isGraphLoaded = FALSE
    /\ popupOverlay = "none"
    /\ graphVisualization = NoGraph

\* a click on the splash image: the overlay is shown; the first time the
\* graph is created and its load started, and isGraphLoaded is set at once;
\* later only graphVisualization.resize() runs
OpenGraphPopup ==
    /\ popupOverlay = "none"
    /\ popupOverlay' = "flex"
    /\ IF ~isGraphLoaded
       THEN /\ graphVisualization' = NewGraphVisualization
            /\ isGraphLoaded' = TRUE
       ELSE UNCHANGED <<isGraphLoaded, graphVisualization>>
    /\ UNCHANGED notGraph

\* the close button, a click on the overlay or the Escape key
CloseGraphPopup ==
    /\ popupOverlay = "flex"
    /\ popupOverlay' = "none"
    /\ UNCHANGED <<isGraphLoaded, graphVisualization>>
    /\ UNCHANGED notGraph

\* renderGraph: without nodes only the 'no data' message is shown
renderGraph(g) ==
    IF g.nodes = {} THEN [g EXCEPT !.rendered = FALSE, !.error = "nodata"]
    ELSE [g EXCEPT !.rendered = TRUE]

\* the fetch is answered with a 2xx status and a JSON body: the nodes and
\* edges are stored, the graph is rendered and the loading indicator hidden
GraphResolves(data) ==
    /\ graphVisualization.load = "pending"
    /\ graphVisualization' =
           [renderGraph([graphVisualization EXCEPT !.nodes = data.nodes,
                                                     !.links = data.edges])
               EXCEPT !.load = "done", !.loading = FALSE]
    /\ UNCHANGED <<isGraphLoaded, popupOverlay>>
    /\ UNCHANGED notGraph

\* the catch block of loadGraphData: the error message and nothing else
loadGraphDataFailed_SampleGraph(g) ==
    [g EXCEPT !.load = "failed", !.nodes = {1}, !.rendered = TRUE,
              !.loading = FALSE]
loadGraphDataFailed(g) ==
    [g EXCEPT !.load = "failed", !.error = "load", !.loading = FALSE]

\* the fetch rejects, or is answered with a status that is not 2xx or a
\* body that is not JSON
GraphFails ==
    /\ graphVisualization.load = "pending"
    /\ graphVisualization' = loadGraphDataFailed(graphVisualization)
    /\ UNCHANGED <<isGraphLoaded, popupOverlay>>
    /\ UNCHANGED notGraph

\* showError's timer: the message is removed after five seconds
GraphErrorRemoved ==
    /\ graphVisualization.error # "none"
    /\ graphVisualization' = [graphVisualization EXCEPT !.error = "none"]
    /\ UNCHANGED <<isGraphLoaded, popupOverlay>>
    /\ UNCHANGED notGraph

NextGraph ==
    \/ OpenGraphPopup
    \/ CloseGraphPopup
    \/ \E data \in GraphData : GraphResolves(data)
    \/ GraphFails
    \/ GraphErrorRemoved

(***************************************************************************)
(* Dashboard page: DarkModeManager and the module layout kept in           *)
(* localStorage 'dashboardModules'.                                        *)
(***************************************************************************)
Themes == {"dark", "light"}
\* localStorage.getItem('theme') === null
NoTheme == "null"

\* initializeDarkMode: savedTheme || (prefersDark ? 'dark' : 'light')
initialTheme_IgnoreSaved(savedTheme, dark) == IF dark THEN "dark" ELSE "light"
initialTheme(savedTheme, dark) ==
    IF savedTheme # NoTheme THEN savedTheme
    ELSE IF dark THEN "dark" ELSE "light"

\* toggleTheme: currentTheme === 'dark' ? 'light' : 'dark'
newTheme(currentTheme) == IF currentTheme = "dark" THEN "light" ELSE "dark"

\* the data-component values of the draggable items
ComponentTypes == {"chat", "report"}
Zones == {"right", "bottom"}

\* let dashboardModules = { right: [], bottom: [] }
NoModules == [right |-> << >>, bottom |-> << >>]

\* localStorage 'dashboardModules': absent, or the object
\* saveDashboardState wrote
NoStoredModules == [kind |-> "absent", right |-> << >>, bottom |-> << >>]

\* JSON.stringify of a module: createdAt, a Date, becomes an ISO string
StringifyModule(m) == [m EXCEPT !.createdAt = "string"]

\* saveDashboardState: JSON.stringify(dashboardModules)
saveDashboardState_Stale(modules) == storedModules
saveDashboardState(modules) ==
    [kind |-> "object",
     right |-> [i \in 1..Len(modules.right) |-> StringifyModule(modules.right[i])],
     bottom |-> [i \in 1..Len(modules.bottom) |-> StringifyModule(modules.bottom[i])]]

\* parseInt(module.id.replace('module-', ''))
idNumber(m) == m.id[2]

MaxOf(S) == CHOOSE x \in S : \A y \in S : y <= x

\* the ids a zone container shows, in order
RenderedIds(modules) ==
    [z \in Zones |-> [i \in 1..Len(modules[z]) |-> modules[z][i].id]]

\* updateDashboardModulesState
ZoneClasses(modules) ==
    [z \in Zones |-> IF Len(modules[z]) = 0 THEN "empty" ELSE "has-modules"]

\* ids and types of the modules of both zones, in order
Layout(modules) ==
    [z \in Zones |-> [i \in 1..Len(modules[z]) |->
                         [id |-> modules[z][i].id, type |-> modules[z][i].type]]]

\* loadDashboardState: what dashboardModules is after reading the storage
LoadedModules(saved) ==
    IF saved.kind = "object" THEN [right |-> saved.right, bottom |-> saved.bottom]
    ELSE NoModules

\* loadDashboardState: the counter is set to the highest stored id
LoadedCounter(saved) ==
    LET mods == LoadedModules(saved)
        nums == UNION {{idNumber(mods[z][i]) : i \in 1..Len(mods[z])} :
                          z \in Zones}
    IN  MaxOf(nums \cup {0})

\* The dashboard page once its script has run for the first time, on empty
\* storage and a system that prefers the light scheme: the constructor of
\* DarkModeManager has applied and stored the initial theme.
InitDash ==
    /\ prefersDark = FALSE
    /\ dataTheme = initialTheme(NoTheme, prefersDark)
    /\ localTheme = initialTheme(NoTheme, prefersDark)
    /\ storedModules = NoStoredModules
    /\ dashboardModules = NoModules
    /\ moduleIdCounter = 0
    /\ moduleDom = RenderedIds(NoModules)
    /\ zoneState = ZoneClasses(NoModules)
    /\ lastChosen = "none"
    /\ lastLayout = Layout(NoModules)
    /\ pageReloaded = FALSE

\* toggleDarkMode: toggleTheme, setTheme
ToggleTheme ==
    /\ dataTheme' = newTheme(dataTheme)
    /\ localTheme' = newTheme(dataTheme)
    /\ lastChosen' = newTheme(dataTheme)
    /\ pageReloaded' = FALSE
    /\ UNCHANGED <<prefersDark, dashboardModules, moduleIdCounter,
                   storedModules, moduleDom, zoneState, lastLayout>>
    /\ UNCHANGED notDash

\* the 'change' listener of the system colour scheme: it sets the theme
\* only while no theme is stored
SystemThemeChanges(matches) ==
    /\ matches # prefersDark
    /\ prefersDark' = matches
    /\ IF localTheme = NoTheme
       THEN /\ dataTheme' = IF matches THEN "dark" ELSE "light"
            /\ localTheme' = IF matches THEN "dark" ELSE "light"
       ELSE UNCHANGED <<dataTheme, localTheme>>
    /\ pageReloaded' = FALSE
    /\ UNCHANGED <<dashboardModules, moduleIdCounter, storedModules,
                   moduleDom, zoneState, lastChosen, lastLayout>>
    /\ UNCHANGED notDash

\* a component dropped on a zone: the module is pushed, rendered and the
\* layout saved
AddModuleToDashboard(componentType, zone) ==
    /\ moduleIdCounter < MaxModuleId
    /\ LET module == [id |-> <<"module-", moduleIdCounter + 1>>,
                      type |-> componentType, zone |-> zone,
                      createdAt |-> "Date"]
           modules == [dashboardModules EXCEPT ![zone] = Append(@, module)]
       IN  /\ moduleIdCounter' = moduleIdCounter + 1
           /\ dashboardModules' = modules
           /\ moduleDom' = [moduleDom EXCEPT ![zone] = Append(@, module.id)]
           /\ zoneState' = ZoneClasses(modules)
           /\ storedModules' = saveDashboardState(modules)
           /\ lastLayout' = Layout(modules)
    /\ pageReloaded' = FALSE
    /\ UNCHANGED <<dataTheme, localTheme, prefersDark, lastChosen>>
    /\ UNCHANGED notDash

\* sequence s without its element at index k (splice(k, 1))
Splice(s, k) == [i \in 1..(Len(s) - 1) |-> IF i < k THEN s[i] ELSE s[i + 1]]

\* the delete button of a module: the zone holding the id is searched
\* (the later zone wins), the module spliced out, its element removed and
\* the layout saved; an unknown id changes nothing
RemoveModule(n) ==
    LET moduleId == <<"module-", n>>
        Holds(z) == \E i \in 1..Len(dashboardModules[z]) :
                        dashboardModules[z][i].id = moduleId
        targetZone == IF Holds("bottom") THEN "bottom" ELSE "right"
        moduleIndex == CHOOSE i \in 1..Len(dashboardModules[targetZone]) :
                           dashboardModules[targetZone][i].id = moduleId
        modules == [dashboardModules EXCEPT
                       ![targetZone] = Splice(@, moduleIndex)]
    IN  IF ~(Holds("right") \/ Holds("bottom"))
        THEN UNCHANGED vars
        ELSE /\ dashboardModules' = modules
             /\ moduleDom' = [z \in Zones |->
                                SelectSeq(moduleDom[z], LAMBDA x : x # moduleId)]
             /\ zoneState' = ZoneClasses(modules)
             /\ storedModules' = saveDashboardState(modules)
             /\ lastLayout' = Layout(modules)
             /\ pageReloaded' = FALSE
             /\ UNCHANGED <<dataTheme, localTheme, prefersDark,
                            moduleIdCounter, lastChosen>>
             /\ UNCHANGED notDash

\* The page is loaded again: a new DarkModeManager applies the stored
\* theme, and loadDashboardState rebuilds the globals and the containers
\* from the stored layout.
DashboardPageLoad ==
    /\ dataTheme' = initialTheme(localTheme, prefersDark)
    /\ localTheme' = initialTheme(localTheme, prefersDark)
    /\ dashboardModules' = LoadedModules(storedModules)
    /\ moduleIdCounter' = LoadedCounter(storedModules)
    /\ moduleDom' = RenderedIds(LoadedModules(storedModules))
    /\ zoneState' = ZoneClasses(LoadedModules(storedModules))
    /\ pageReloaded' = TRUE
    /\ UNCHANGED <<prefersDark, storedModules, lastChosen, lastLayout>>
    /\ UNCHANGED notDash

NextDash ==
    \/ ToggleTheme
    \/ \E matches \in BOOLEAN : SystemThemeChanges(matches)
    \/ \E componentType \in ComponentTypes, zone \in Zones :
           AddModuleToDashboard(componentType, zone)
    \/ \E n \in 1..MaxModuleId : RemoveModule(n)
    \/ DashboardPageLoad

(***************************************************************************)
(* Chat status line: checkBackendConnection, its two automatic calls one   *)
(* second after the page load, retryBackendConnection.  Time is counted in *)
(* steps of 1000 ms; timers that are due together fire in either order.    *)
(***************************************************************************)
ConnIds == 1..MaxChecks

\* setTimeout delays, in steps of 1000 ms
AutoCheckDelay == 1
ReadyDelay == 2
OfflineDelay == 3

\* updateChatStatus(status, message)
updateChatStatus(status, message) == [status |-> status, message |-> message]

\* what getChatAgentInfo resolves with: the body of a 2xx answer (an object
\* with a status, or null), or the object its catch returns
AgentInfos ==
    {[kind |-> "null", status |-> "none", message |-> "none"],
     [kind |-> "object", status |-> "active", message |-> "none"],
     [kind |-> "object", status |-> "error", message |-> "none"]}

getChatAgentInfoCatch ==
    [kind |-> "object", status |-> "error", message |-> "noAgentInfo"]

\* if (agentInfo && agentInfo.status !== 'error')
ConnectionOk(agentInfo) ==
    agentInfo.kind # "null" /\ agentInfo.status # "error"

\* a call of checkBackendConnection: st is "unused", "pending" (at the
\* await), "success" or "error"; left is the time left on the timer the call
\* set, NoTimer when it has none; agentInfo is what the await returned
NoTimer == 0 - 1
NoAgentInfo == [kind |-> "none", status |-> "none", message |-> "none"]
NoCheck == [st |-> "unused", left |-> NoTimer, agentInfo |-> NoAgentInfo]

InitConn ==
    /\ chatStatus = updateChatStatus("", "initial")
    /\ connChecks = [c \in ConnIds |-> NoCheck]
    /\ connCount = 0
    /\ autoTimers = [k \in 1..2 |-> AutoCheckDelay]

\* all timers that run: those of the page load and those of the checks
TimersLeft ==
    {autoTimers[k] : k \in 1..2} \cup {connChecks[c].left : c \in ConnIds}

\* 1000 ms pass: no timer is overdue, and some timer runs
ConnTick ==
    /\ 0 \notin TimersLeft
    /\ \E t \in TimersLeft : t > 0
    /\ autoTimers' = [k \in 1..2 |->
                        IF autoTimers[k] > 0 THEN autoTimers[k] - 1
                        ELSE autoTimers[k]]
    /\ connChecks' = [c \in ConnIds |->
                        IF connChecks[c].left > 0
                        THEN [connChecks[c] EXCEPT !.left = @ - 1]
                        ELSE connChecks[c]]
    /\ UNCHANGED <<chatStatus, connCount, notConn>>

\* checkBackendConnection up to its await
CheckBackendConnection ==
    /\ chatStatus' = updateChatStatus("loading", "checking")
    /\ connCount' = connCount + 1
    /\ connChecks' = [connChecks EXCEPT ![connCount + 1].st = "pending"]

\* one of the two timers of the page load (DOMContentLoaded handler,
\* bindEventListeners) fires
AutoCheckFires(k) ==
    /\ autoTimers[k] = 0
    /\ autoTimers' = [autoTimers EXCEPT ![k] = NoTimer]
    /\ CheckBackendConnection
    /\ UNCHANGED notConn

\* checks the page load still has to start
AutoPending == Cardinality({k \in 1..2 : autoTimers[k] # NoTimer})

\* retryBackendConnection: a manual check
RetryBackendConnection ==
    /\ connCount + AutoPending < MaxChecks
    /\ CheckBackendConnection
    /\ UNCHANGED <<autoTimers, notConn>>

\* checkBackendConnection after its await: the status of the outcome at
\* once, and the timer for the message that follows
CheckSettles(c, agentInfo) ==
    /\ IF ConnectionOk(agentInfo)
       THEN /\ chatStatus' = updateChatStatus("success", "connected")
            /\ connChecks' = [connChecks EXCEPT ![c] =
                                [st |-> "success", left |-> ReadyDelay,
                                 agentInfo |-> agentInfo]]
       ELSE /\ chatStatus' = updateChatStatus("error", "offline")
            /\ connChecks' = [connChecks EXCEPT ![c] =
                                [st |-> "error", left |-> OfflineDelay,
                                 agentInfo |-> agentInfo]]
    /\ UNCHANGED <<connCount, autoTimers, notConn>>

\* the answer of GET /query/agent-info arrives
AgentInfoArrives(c, agentInfo) ==
    /\ connChecks[c].st = "pending"
    /\ CheckSettles(c, agentInfo)

\* the request of getChatAgentInfo fails
AgentInfoFails(c) ==
    /\ connChecks[c].st = "pending"
    /\ CheckSettles(c, getChatAgentInfoCatch)

\* the message a check shows when its timer fires
DelayedStatus(st) ==
    IF st = "success" THEN updateChatStatus("", "ready")
    ELSE updateChatStatus("error", "startBackend")

\* the timer a check set fires
StatusTimerFires(c) ==
    /\ connChecks[c].left = 0
    /\ chatStatus' = DelayedStatus(connChecks[c].st)
    /\ connChecks' = [connChecks EXCEPT ![c].left = NoTimer]
    /\ UNCHANGED <<connCount, autoTimers, notConn>>

NextConn ==
    \/ ConnTick
    \/ \E k \in 1..2 : AutoCheckFires(k)
    \/ RetryBackendConnection
    \/ \E c \in ConnIds, agentInfo \in AgentInfos : AgentInfoArrives(c, agentInfo)
    \/ \E c \in ConnIds : AgentInfoFails(c)
    \/ \E c \in ConnIds : StatusTimerFires(c)

(***************************************************************************)
(* Todo list of the home page: class TodoManager.                          *)
(***************************************************************************)
TodoIds == 1..MaxTodoId

\* defaultTodos of getLocalTodos
defaultTodos ==
    << [id |-> 1, text |-> <<"p">>, time |-> "today", completed |-> TRUE,
        priority |-> FALSE],
       [id |-> 2, text |-> <<"m">>, time |-> "tomorrow", completed |-> FALSE,
        priority |-> FALSE],
       [id |-> 3, text |-> <<"b">>, time |-> "week", completed |-> FALSE,
        priority |-> TRUE],
       [id |-> 4, text |-> <<"r">>, time |-> "weekend", completed |-> FALSE,
        priority |-> FALSE] >>

\* localStorage 'userTodos' before anything was saved
NoUserTodos == [kind |-> "absent", items |-> << >>]

\* JSON.stringify(this.todos): the array of the items, field by field
StringifyTodos(list) ==
    [kind |-> "array",
     items |-> [i \in 1..Len(list) |->
                  [id |-> list[i].id, text |-> list[i].text,
                   time |-> list[i].time, completed |-> list[i].completed,
                   priority |-> list[i].priority]]]

\* getLocalTodos: the saved array when there is one and it is not empty,
\* the default todos otherwise
getLocalTodos(saved) ==
    IF saved.kind = "array" /\ Len(saved.items) > 0 THEN saved.items
    ELSE defaultTodos

\* getNextId
getNextId(list) == MaxOf({0} \cup {list[i].id : i \in 1..Len(list)}) + 1

\* renderTodoList: one .todo-item per todo, in order
RenderTodoList(list) == [i \in 1..Len(list) |-> list[i].id]

\* Math.round(x / y * 100) for 0 <= x <= y, y > 0
RoundPercent(x, y) == (200 * x + y) \div (2 * y)

\* updateProgress
Progress(list) ==
    LET total == Len(list)
        completed == Cardinality({i \in 1..total : list[i].completed})
    IN IF total > 0 THEN RoundPercent(completed, total) ELSE 0

InitTodo ==
    /\ userTodos = NoUserTodos
    /\ todos = getLocalTodos(userTodos)
    /\ nextId = getNextId(todos)
    /\ todoList = RenderTodoList(todos)
    /\ progress = Progress(todos)

TodoTexts == {<< >>, <<" ">>, <<" ", "t">>}
TodoTimes == {"", "soon"}

\* saveLocalTodos, renderTodoList, updateProgress after a change of the list
TodoSaved(list) ==
    /\ todos' = list
    /\ userTodos' = StringifyTodos(list)
    /\ todoList' = RenderTodoList(list)
    /\ progress' = Progress(list)

\* addTodo(text, time)
AddTodo(text, time) ==
    /\ nextId <= MaxTodoId
    /\ IF trim(text) # << >>
       THEN /\ nextId' = nextId + 1
            /\ TodoSaved(<< [id |-> nextId, text |-> trim(text),
                             time |-> IF time # "" THEN time ELSE "free",
                             completed |-> FALSE, priority |-> FALSE] >>
                         \o todos)
       ELSE UNCHANGED <<todos, nextId, userTodos, todoList, progress>>
    /\ UNCHANGED notTodo

\* this.todos.find(t => t.id === id): the position of the first match, 0
\* when there is none
FindTodo(id) ==
    IF \E i \in 1..Len(todos) : todos[i].id = id
    THEN CHOOSE i \in 1..Len(todos) :
             /\ todos[i].id = id
             /\ \A j \in 1..(i - 1) : todos[j].id # id
    ELSE 0

\* toggleTodo(id)
ToggleTodo(id) ==
    /\ IF FindTodo(id) # 0
       THEN TodoSaved([todos EXCEPT ![FindTodo(id)].completed = ~@])
       ELSE UNCHANGED <<todos, userTodos, todoList, progress>>
    /\ UNCHANGED <<nextId, notTodo>>

\* togglePriority(id) (it does not call updateProgress; the priority does
\* not enter the progress)
TogglePriority(id) ==
    /\ IF FindTodo(id) # 0
       THEN TodoSaved([todos EXCEPT ![FindTodo(id)].priority = ~@])
       ELSE UNCHANGED <<todos, userTodos, todoList, progress>>
    /\ UNCHANGED <<nextId, notTodo>>

\* this.todos.filter(t => t.id !== id)
RECURSIVE FilterOut(_, _)
FilterOut(list, id) ==
    IF list = << >> THEN << >>
    ELSE IF Head(list).id # id THEN <<Head(list)>> \o FilterOut(Tail(list), id)
    ELSE FilterOut(Tail(list), id)

\* removeTodo(id)
RemoveTodo(id) ==
    /\ TodoSaved(FilterOut(todos, id))
    /\ UNCHANGED <<nextId, notTodo>>

\* new TodoManager() on a page load
NewTodoManager ==
    /\ todos' = getLocalTodos(userTodos)
    /\ nextId' = getNextId(getLocalTodos(userTodos))
    /\ todoList' = RenderTodoList(getLocalTodos(userTodos))
    /\ progress' = Progress(getLocalTodos(userTodos))
    /\ UNCHANGED <<userTodos, notTodo>>

NextTodo ==
    \/ \E text \in TodoTexts, time \in TodoTimes : AddTodo(text, time)
    \/ \E id \in TodoIds : ToggleTodo(id)
    \/ \E id \in TodoIds : TogglePriority(id)
    \/ \E id \in TodoIds : RemoveTodo(id)
    \/ NewTodoManager

(***************************************************************************)
(* Login page: the React component LoginPage.  A handler runs with the     *)
(* state of the last render, and the render that follows the event is part *)
(* of the step.                                                            *)
(***************************************************************************)
FieldNames == {"email", "password", "name", "confirmPassword"}

\* the state formData starts with and toggleMode sets
EmptyForm == [f \in FieldNames |-> ""]

\* what can be typed into an input
FieldValues ==
    [email |-> {"", "a@b"}, password |-> {"", "short", "eightchars"},
     name |-> {"", "n"}, confirmPassword |-> {"", "eightchars"}]

\* a render that leaves the name input in the form in both modes
LoginRender_NameAlways(login) ==
    {"email", "password", "name"} \cup
        (IF ~login THEN {"confirmPassword"} ELSE {})

\* the inputs of the returned form: email and password always, name and
\* confirmPassword under {!isLogin && (...)}
LoginRender(login) ==
    {"email", "password"} \cup
        (IF ~login THEN {"name", "confirmPassword"} ELSE {})

InitLogin ==
    /\ isLogin = TRUE
    /\ showPassword = FALSE
    /\ formData = EmptyForm
    /\ loginFields = LoginRender(isLogin)
    /\ loginAlert = "none"
    /\ loginEvent = "none"

\* handleInputChange on an input that is in the form
HandleInputChange(name, value) ==
    /\ name \in loginFields
    /\ formData' = [formData EXCEPT ![name] = value]
    /\ loginFields' = LoginRender(isLogin)
    /\ loginEvent' = "input"
    /\ UNCHANGED <<isLogin, showPassword, loginAlert, notLogin>>

\* the eye button: setShowPassword(!showPassword)
ToggleShowPassword ==
    /\ showPassword' = ~showPassword
    /\ loginFields' = LoginRender(isLogin)
    /\ loginEvent' = "showPassword"
    /\ UNCHANGED <<isLogin, formData, loginAlert, notLogin>>

\* the form's own validation: required inputs are filled, minLength={8}
FormValid ==
    /\ \A f \in loginFields : formData[f] # ""
    /\ formData.password # "short"

\* handleSubmit (the browser calls it only for a valid form)
HandleSubmit ==
    /\ FormValid
    /\ loginAlert' = IF isLogin THEN "login" ELSE "signup"
    /\ loginFields' = LoginRender(isLogin)
    /\ loginEvent' = "submit"
    /\ UNCHANGED <<isLogin, showPassword, formData, notLogin>>

\* toggleMode: setIsLogin(!isLogin), the form is emptied
ToggleMode ==
    /\ isLogin' = ~isLogin
    /\ formData' = EmptyForm
    /\ loginFields' = LoginRender(isLogin')
    /\ loginEvent' = "toggle"
    /\ UNCHANGED <<showPassword, loginAlert, notLogin>>

NextLogin ==
    \/ \E name \in FieldNames : \E value \in FieldValues[name] :
           HandleInputChange(name, value)
    \/ ToggleShowPassword
    \/ HandleSubmit
    \/ ToggleMode

(***************************************************************************)
(* Side bars of the dashboard: summary, keywords, chat, memo, new report.  *)
(***************************************************************************)
Bars == {"summary", "keywords", "chat", "memo", "newreport"}

InitBar ==
    /\ openBars = {}
    /\ withChatBar = FALSE

\* closeOtherBars(currentBar): 'open' is removed from every other bar
closeOtherBars(currentBar) == openBars \cap {currentBar}

\* openSummaryBar, openKeywordsBar, openMemoBar, openNewReportBar
OpenSideBar(bar) ==
    /\ openBars' = closeOtherBars(bar) \cup {bar}
    /\ withChatBar' = TRUE
    /\ UNCHANGED notBar

\* closeSummaryBar, closeKeywordsBar, closeChatBar, closeMemoBar,
\* closeNewReportBar
CloseSideBar(bar) ==
    /\ openBars' = openBars \ {bar}
    /\ withChatBar' = FALSE
    /\ UNCHANGED notBar

\* openChatBar: the other bars are closed; with text in .chat-input the user
\* bubble is shown and sendChatMessage is awaited before the bar opens,
\* without text the bar opens at once
OpenChatBar(message) ==
    IF trim(message) = << >>
    THEN /\ openBars' = closeOtherBars("chat") \cup {"chat"}
         /\ withChatBar' = TRUE
         /\ UNCHANGED notBar
    ELSE /\ chatCount < MaxChat
         /\ openBars' = closeOtherBars("chat")
         /\ chatCount' = chatCount + 1
         /\ chatBarMessages' =
              displayChatMessage(chatBarMessages, trim(message), "user",
                                 chatCount + 1, chatGen)
         /\ notification' = "info"
         /\ chatReqs' = [chatReqs EXCEPT ![chatCount + 1] =
                           [NoChatReq EXCEPT
                              !.st = "sent", !.session_id = RequestSessionId,
                              !.after = deliveredSession, !.gen = chatGen,
                              !.from = "openChatBar",
                              !.userBubbles =
                                 Appended(chatBarMessages,
                                   displayChatMessage(chatBarMessages,
                                     trim(message), "user",
                                     chatCount + 1, chatGen))]]
         /\ UNCHANGED <<currentChatSession, clearReqs, clearCount, chatGen,
                        deliveredSession, serverSessions, withChatBar,
                        notChatBar>>

NextBar ==
    \/ \E bar \in Bars \ {"chat"} : OpenSideBar(bar)
    \/ \E bar \in Bars : CloseSideBar(bar)
    \/ \E message \in ChatInputs : OpenChatBar(message)
    \/ \E i \in ChatIds, withId \in BOOLEAN : ChatResponse(i, withId)
    \/ \E i \in ChatIds, error \in QueryErrors : ChatFail(i, error)

(***************************************************************************)
(* Report module of the dashboard: its four screens, generateReport,       *)
(* viewReportFromHistory, loadReportHistory.  A button can be clicked      *)
(* while the screen it is on is displayed.                                 *)
(***************************************************************************)
Screens == {"initial", "generating", "completed", "detail"}
GenIds == 1..MaxGenerations
ViewIds == 1..MaxViews

\* the module as createModuleElement builds it and setupReportModule leaves
\* it: the initial screen, the history list being loaded
InitReport ==
    /\ reportScreens = [x \in Screens |-> x = "initial"]
    /\ reportData = FALSE
    /\ reportGens = [g \in GenIds |-> "unused"]
    /\ reportGenCount = 0
    /\ reportViews = [v \in ViewIds |-> "unused"]
    /\ reportViewCount = 0
    /\ historyList = "loading"
    /\ historyPending = 1
    /\ reportProgress = 0
    /\ reportAlert = "none"

\* showReportGeneratingScreen: the detail screen is not touched
showReportGeneratingScreen(screens) ==
    [screens EXCEPT !.initial = FALSE, !.generating = TRUE, !.completed = FALSE]

\* showReportCompletedScreen: the detail screen is not touched
showReportCompletedScreen(screens) ==
    [screens EXCEPT !.initial = FALSE, !.generating = FALSE, !.completed = TRUE]

\* showReportDetail after its guard
showReportDetail(screens) ==
    [screens EXCEPT !.initial = FALSE, !.generating = FALSE,
                    !.completed = FALSE, !.detail = TRUE]

\* hideReportDetail
hideReportDetail(screens) ==
    [screens EXCEPT !.initial = FALSE, !.generating = FALSE,
                    !.detail = FALSE, !.completed = TRUE]

\* resetReportModule: the detail screen is not touched
resetReportModule(screens) ==
    [screens EXCEPT !.initial = TRUE, !.generating = FALSE, !.completed = FALSE]

\* loadReportHistory up to its await: the spinner, one more GET /reports
LoadReportHistory ==
    /\ historyPending < MaxHistoryLoads
    /\ historyList' = "loading"
    /\ historyPending' = historyPending + 1

\* showReportError(message): resetReportModule (which reloads the history),
\* then the alert
ShowReportError(message) ==
    /\ reportScreens' = resetReportModule(reportScreens)
    /\ reportData' = FALSE
    /\ LoadReportHistory
    /\ reportAlert' = message

\* click on #reportGenerateBtn: generateReport up to its first await, or up
\* to its return when no folder is selected
GenerateReport(hasFolder) ==
    /\ reportScreens.initial
    /\ reportGenCount < MaxGenerations
    /\ IF ~hasFolder
       THEN /\ ShowReportError("noFolder")
            /\ UNCHANGED <<reportGens, reportGenCount, reportProgress>>
       ELSE /\ reportScreens' = showReportGeneratingScreen(reportScreens)
            /\ reportProgress' = 20
            /\ reportGenCount' = reportGenCount + 1
            /\ reportGens' = [reportGens EXCEPT ![reportGenCount + 1] = "files"]
            /\ UNCHANGED <<reportData, historyList, historyPending, reportAlert>>
    /\ UNCHANGED <<reportViews, reportViewCount, notReport>>

\* the await a call of generateReport is at
GenAwaits == {"files", "generate", "report"}

\* the three awaits of generateReport in their order, then the timer
NextGenPhase(phase) ==
    CASE phase = "files" -> "generate"
      [] phase = "generate" -> "report"
      [] phase = "report" -> "timer"

\* updateReportProgress after the await that ended
ProgressAfter(phase) ==
    CASE phase = "files" -> 50
      [] phase = "generate" -> 80
      [] phase = "report" -> 100

\* an await of generateReport returns a usable answer
GenerateAdvances(g) ==
    /\ reportGens[g] \in GenAwaits
    /\ reportGens' = [reportGens EXCEPT ![g] = NextGenPhase(reportGens[g])]
    /\ reportProgress' = ProgressAfter(reportGens[g])
    /\ UNCHANGED <<reportScreens, reportData, reportGenCount, reportViews,
                   reportViewCount, historyList, historyPending, reportAlert,
                   notReport>>

\* an await of generateReport throws, or its answer is unusable: the catch
GenerateFails(g, error) ==
    /\ reportGens[g] \in GenAwaits
    /\ reportGens' = [reportGens EXCEPT ![g] = "failed"]
    /\ ShowReportError(IF error = "abort" THEN "timeout" ELSE "error")
    /\ UNCHANGED <<reportGenCount, reportViews, reportViewCount,
                   reportProgress, notReport>>

\* the timer set after the last await fires, one second later
CompletedTimerFires(g) ==
    /\ reportGens[g] = "timer"
    /\ reportGens' = [reportGens EXCEPT ![g] = "done"]
    /\ reportScreens' = showReportCompletedScreen(reportScreens)
    /\ reportData' = TRUE
    /\ LoadReportHistory
    /\ UNCHANGED <<reportGenCount, reportViews, reportViewCount,
                   reportProgress, reportAlert, notReport>>

\* click on #reportViewBtn (completed screen)
ShowReportDetail ==
    /\ reportScreens.completed
    /\ reportScreens' = IF reportData THEN showReportDetail(reportScreens)
                        ELSE reportScreens
    /\ UNCHANGED <<reportData, reportGens, reportGenCount, reportViews,
                   reportViewCount, historyList, historyPending,
                   reportProgress, reportAlert, notReport>>

\* click on #reportDetailClose (detail screen)
HideReportDetail ==
    /\ reportScreens.detail
    /\ reportScreens' = hideReportDetail(reportScreens)
    /\ UNCHANGED <<reportData, reportGens, reportGenCount, reportViews,
                   reportViewCount, historyList, historyPending,
                   reportProgress, reportAlert, notReport>>

\* click on #reportNewBtn (completed screen)
ResetReportModule ==
    /\ reportScreens.completed
    /\ reportScreens' = resetReportModule(reportScreens)
    /\ reportData' = FALSE
    /\ LoadReportHistory
    /\ UNCHANGED <<reportGens, reportGenCount, reportViews, reportViewCount,
                   reportProgress, reportAlert, notReport>>

\* click on #reportRefreshBtn (initial screen)
RefreshReportHistory ==
    /\ reportScreens.initial
    /\ LoadReportHistory
    /\ UNCHANGED <<reportScreens, reportData, reportGens, reportGenCount,
                   reportViews, reportViewCount, reportProgress, reportAlert,
                   notReport>>

\* GET /reports of a loadReportHistory ends: the items, or the empty or
\* failure note
HistoryArrives(shown) ==
    /\ historyPending > 0
    /\ historyPending' = historyPending - 1
    /\ historyList' = shown
    /\ UNCHANGED <<reportScreens, reportData, reportGens, reportGenCount,
                   reportViews, reportViewCount, reportProgress, reportAlert,
                   notReport>>

\* click on a report of the history list (initial screen):
\* viewReportFromHistory up to its await
ViewReportFromHistory ==
    /\ reportScreens.initial
    /\ historyList = "items"
    /\ reportViewCount < MaxViews
    /\ reportViewCount' = reportViewCount + 1
    /\ reportViews' = [reportViews EXCEPT ![reportViewCount + 1] = "pending"]
    /\ historyList' = "loading"
    /\ UNCHANGED <<reportScreens, reportData, reportGens, reportGenCount,
                   historyPending, reportProgress, reportAlert, notReport>>

\* GET /reports/{id} of viewReportFromHistory returns the report
ViewArrives(v) ==
    /\ reportViews[v] = "pending"
    /\ reportViews' = [reportViews EXCEPT ![v] = "done"]
    /\ reportData' = TRUE
    /\ reportScreens' = showReportDetail(reportScreens)
    /\ UNCHANGED <<reportGens, reportGenCount, reportViewCount, historyList,
                   historyPending, reportProgress, reportAlert, notReport>>

\* the catch of viewReportFromHistory
ViewFails(v) ==
    /\ reportViews[v] = "pending"
    /\ reportViews' = [reportViews EXCEPT ![v] = "failed"]
    /\ LoadReportHistory
    /\ reportAlert' = "viewError"
    /\ UNCHANGED <<reportScreens, reportData, reportGens, reportGenCount,
                   reportViewCount, reportProgress, notReport>>

NextReport ==
    \/ \E hasFolder \in BOOLEAN : GenerateReport(hasFolder)
    \/ \E g \in GenIds : GenerateAdvances(g)
    \/ \E g \in GenIds, error \in {"abort", "other"} : GenerateFails(g, error)
    \/ \E g \in GenIds : CompletedTimerFires(g)
    \/ ShowReportDetail
    \/ HideReportDetail
    \/ ResetReportModule
    \/ RefreshReportHistory
    \/ \E shown \in {"items", "empty"} : HistoryArrives(shown)
    \/ ViewReportFromHistory
    \/ \E v \in ViewIds : ViewArrives(v)
    \/ \E v \in ViewIds : ViewFails(v)

(***************************************************************************)
(* Memo module of the dashboard: the new-memo form, saveMemoFromForm,      *)
(* createMemo, loadMemoList.  A gesture is Enter in the content input or a *)
(* click on the save button; a disabled button delivers no click.          *)
(***************************************************************************)
GestureIds == 1..MaxGestures

\* what the user can have typed into #memoNewContent
MemoTexts == {<< >>, <<" ">>, <<"m">>, <<" ", "m">>, <<"n">>}

NoFolder == 0

\* currentFolder is assigned outside the scripts of the page that are at
\* hand: a call of saveMemoFromForm finds it unset or set
CurrentFolders == {NoFolder, 1}

\* getFolderMemos(folderId, 5)
MemoListLimit == 5

EmptyMemoForm == [display |-> FALSE, content |-> << >>, disabled |-> FALSE]

NoGesture == [n |-> 0, via |-> "none", folder |-> NoFolder, pending |-> 0]

InitMemo ==
    /\ memoForm = EmptyMemoForm
    /\ memoSaves = << >>
    /\ memoGesture = NoGesture
    /\ backendMemos = << >>
    /\ memoList = << >>
    /\ memoNotice = "none"

\* showMemoNewForm, bound to #memoAddBtn, which is hidden while the form is
\* displayed
ShowMemoNewForm ==
    /\ ~memoForm.display
    /\ memoForm' = [memoForm EXCEPT !.display = TRUE]
    /\ UNCHANGED <<memoSaves, memoGesture, backendMemos, memoList, memoNotice,
                   notMemo>>

\* hideMemoNewForm: the form is hidden and its inputs are emptied; the save
\* button is left as it is
hideMemoNewForm(form) == [form EXCEPT !.display = FALSE, !.content = << >>]

\* the cancel button
CancelMemoNewForm ==
    /\ memoForm.display
    /\ memoForm' = hideMemoNewForm(memoForm)
    /\ UNCHANGED <<memoSaves, memoGesture, backendMemos, memoList, memoNotice,
                   notMemo>>

\* the user types into #memoNewContent
TypeMemoContent(text) ==
    /\ memoForm.display
    /\ memoForm.content # text
    /\ memoForm' = [memoForm EXCEPT !.content = text]
    /\ UNCHANGED <<memoSaves, memoGesture, backendMemos, memoList, memoNotice,
                   notMemo>>

\* bindMemoNewFormEvents: the keydown listener of the content input calls
\* saveMemoFromForm on Enter, whatever the state of the save button
EnterHandled_WhileEnabled(form) == ~form.disabled
EnterHandled(form) == TRUE

\* the click listener of #memoSaveBtn: a disabled button gets no click
ClickHandled(form) == ~form.disabled

GestureHandled(via, form) ==
    IF via = "enter" THEN EnterHandled(form) ELSE ClickHandled(form)

\* the calls of saveMemoFromForm whose createMemo is awaited
PendingCreates(saves) ==
    {i \in 1..Len(saves) : saves[i].phase = "creating"}

\* the finally block of saveMemoFromForm: the save button is enabled again
SaveButtonRestored(form) == [form EXCEPT !.disabled = FALSE]

\* saveMemoFromForm up to its first await: without currentFolder or without
\* content a warning is shown; otherwise the button is disabled and
\* createMemo sends POST /memos/ with the trimmed content
SaveMemoFromForm(via, folder) ==
    /\ memoForm.display
    /\ memoGesture.n < MaxGestures
    /\ memoGesture' = [n |-> memoGesture.n + 1, via |-> via, folder |-> folder,
                       pending |-> Cardinality(PendingCreates(memoSaves))]
    /\ IF ~GestureHandled(via, memoForm)
       THEN UNCHANGED <<memoForm, memoSaves, memoNotice>>
       ELSE IF folder = NoFolder
       THEN /\ memoNotice' = "warning_folder"
            /\ UNCHANGED <<memoForm, memoSaves>>
       ELSE IF trim(memoForm.content) = << >>
       THEN /\ memoNotice' = "warning_content"
            /\ UNCHANGED <<memoForm, memoSaves>>
       ELSE /\ memoForm' = [memoForm EXCEPT !.disabled = TRUE]
            /\ memoSaves' =
                 Append(memoSaves,
                        [phase |-> "creating",
                         content |-> trim(memoForm.content),
                         gesture |-> memoGesture.n + 1])
            /\ UNCHANGED memoNotice
    /\ UNCHANGED <<backendMemos, memoList, notMemo>>

\* POST /memos/ is answered: the backend has stored the memo, createMemo
\* shows its success toast, the form is hidden and loadMemoList sends
\* GET /memos/folder/{id}
CreateMemoArrives(i) ==
    /\ i \in PendingCreates(memoSaves)
    /\ backendMemos' = Append(backendMemos, memoSaves[i].content)
    /\ memoNotice' = "success"
    /\ memoForm' = hideMemoNewForm(memoForm)
    /\ memoSaves' = [memoSaves EXCEPT ![i].phase = "listing"]
    /\ UNCHANGED <<memoGesture, memoList, notMemo>>

\* POST /memos/ fails: createMemo shows the error and throws again,
\* saveMemoFromForm logs it and runs its finally block
CreateMemoFails(i) ==
    /\ i \in PendingCreates(memoSaves)
    /\ memoNotice' = "error"
    /\ memoForm' = SaveButtonRestored(memoForm)
    /\ memoSaves' = [memoSaves EXCEPT ![i].phase = "failed"]
    /\ UNCHANGED <<memoGesture, backendMemos, memoList, notMemo>>

\* the first MemoListLimit memos
FirstMemos(memos) ==
    SubSeq(memos, 1, IF Len(memos) < MemoListLimit THEN Len(memos)
                     ELSE MemoListLimit)

\* loadMemoList gets its answer: renderMemoList shows the memos; then the
\* finally block of saveMemoFromForm
MemoListArrives(i) ==
    /\ i \in 1..Len(memoSaves)
    /\ memoSaves[i].phase = "listing"
    /\ memoList' = FirstMemos(backendMemos)
    /\ memoForm' = SaveButtonRestored(memoForm)
    /\ memoSaves' = [memoSaves EXCEPT ![i].phase = "saved"]
    /\ UNCHANGED <<memoGesture, backendMemos, memoNotice, notMemo>>

\* loadMemoList fails: getFolderMemos shows the error, loadMemoList hides the
\* list and catches; then the finally block of saveMemoFromForm
MemoListFails(i) ==
    /\ i \in 1..Len(memoSaves)
    /\ memoSaves[i].phase = "listing"
    /\ memoList' = << >>
    /\ memoNotice' = "error"
    /\ memoForm' = SaveButtonRestored(memoForm)
    /\ memoSaves' = [memoSaves EXCEPT ![i].phase = "saved"]
    /\ UNCHANGED <<memoGesture, backendMemos, notMemo>>

NextMemo ==
    \/ ShowMemoNewForm
    \/ CancelMemoNewForm
    \/ \E text \in MemoTexts : TypeMemoContent(text)
    \/ \E via \in {"enter", "click"}, folder \in CurrentFolders :
          SaveMemoFromForm(via, folder)
    \/ \E i \in GestureIds : CreateMemoArrives(i)
    \/ \E i \in GestureIds : CreateMemoFails(i)
    \/ \E i \in GestureIds : MemoListArrives(i)
    \/ \E i \in GestureIds : MemoListFails(i)

(***************************************************************************)
(* Home page drag and drop: the end of a drag that no handler sees, and    *)
(* the trash can (handleDropOnTrash).                                      *)
(***************************************************************************)
NoTrash == [st |-> "idle", folderId |-> Null, folderElement |-> FALSE]

InitTrash ==
    /\ trash = NoTrash
    /\ trashCount = 0

\* The drag of a folder ends without a drop on a category tab or on the
\* trash can (Escape, or a release anywhere else).  The page has no dragend
\* listener: the dataTransfer goes with the drag, nothing else changes.
DragEnds ==
    /\ dataTransfer # Null
    /\ dataTransfer' = Null
    /\ UNCHANGED <<folderType, tempFolders, activeTab, grid, loads, loadCount,
                   currentDraggedFolderId, drop, dropCount, create,
                   createCount, shownMessage, lastArrived>>
    /\ UNCHANGED notLib

\* possibleIds.find(...) of handleDropOnTrash: the id of the dataTransfer,
\* or else the global backup
TrashFolderId ==
    IF dataTransfer # Null THEN dataTransfer ELSE currentDraggedFolderId

\* document.querySelector('.library-item[data-folder-id=...]')
FolderElement(folderId) ==
    grid.kind = "folders" /\ folderId \in {i.id : i \in grid.items}

\* Drop on the trash can, up to the await.  Without a folder id an error
\* toast is shown.  With one the user is asked; a refusal clears the global;
\* an id that is not an ObjectId throws into the catch block (error toast)
\* and the finally block clears the global; otherwise DELETE /folders/{id}
\* is sent.  (Ids shorter than 8 characters do not occur.)  The drop of
\* something that is not a folder carries no folder id.
HandleDropOnTrash(confirmDelete) ==
    /\ trashCount < MaxTrashDrops
    /\ trash.st \in {"idle", "done"}
    /\ trashCount' = trashCount + 1
    /\ dataTransfer' = Null
    /\ IF TrashFolderId = Null
       THEN /\ shownMessage' = "error"
            /\ UNCHANGED <<trash, currentDraggedFolderId>>
       ELSE IF ~confirmDelete
       THEN /\ currentDraggedFolderId' = Null
            /\ UNCHANGED <<trash, shownMessage>>
       ELSE IF ~objectIdRegex(TrashFolderId)
       THEN /\ shownMessage' = "error"
            /\ currentDraggedFolderId' = Null
            /\ UNCHANGED trash
       ELSE /\ trash' = [st |-> "deleting", folderId |-> TrashFolderId,
                         folderElement |-> FolderElement(TrashFolderId)]
            /\ UNCHANGED <<shownMessage, currentDraggedFolderId>>
    /\ UNCHANGED <<folderType, tempFolders, activeTab, grid, loads, loadCount,
                   drop, dropCount, create, createCount, lastArrived>>
    /\ UNCHANGED notLibTrash

\* DELETE /folders/{id} is answered.  Success: the backend has deleted the
\* folder; with the folder's element on the page a 300 ms timer is set that
\* removes it and shows the success toast, without it loadFolders() is
\* started and the toast is shown at once; showFoldersForCategory(active
\* tab) is started.  Failure: the error toast.  Both end in the finally
\* block, which clears the global.
DeleteSettles(ok) ==
    /\ trash.st = "deleting"
    /\ currentDraggedFolderId' = Null
    /\ IF ok
       THEN LET n == IF trash.folderElement THEN 0 ELSE 1
                l1 == loadCount + 1
                l2 == loadCount + n + 1
            IN  /\ loadCount + n + 1 <= MaxLoads
                /\ folderType' = [folderType EXCEPT ![trash.folderId] = Absent]
                /\ loads' = [l \in LoadIds |->
                               IF l = l2 THEN CategoryLoad(activeTab)
                               ELSE IF l = l1 THEN UnifiedLoad
                               ELSE loads[l]]
                /\ loadCount' = l2
                /\ grid' = LoadingGrid(l2)
                /\ IF trash.folderElement
                   THEN /\ trash' = [trash EXCEPT !.st = "removing"]
                        /\ UNCHANGED shownMessage
                   ELSE /\ trash' = [trash EXCEPT !.st = "done"]
                        /\ shownMessage' = "success"
       ELSE /\ trash' = [trash EXCEPT !.st = "done"]
            /\ shownMessage' = "error"
            /\ UNCHANGED <<folderType, loads, loadCount, grid>>
    /\ UNCHANGED <<tempFolders, activeTab, dataTransfer, drop, dropCount,
                   create, createCount, lastArrived, trashCount>>
    /\ UNCHANGED notLibTrash

\* the 300 ms timer of handleDropOnTrash: folderElement.remove() on an
\* element that showFoldersForCategory has replaced already, and the
\* success toast
TrashTimerFires ==
    /\ trash.st = "removing"
    /\ trash' = [trash EXCEPT !.st = "done"]
    /\ shownMessage' = "success"
    /\ UNCHANGED <<folderType, tempFolders, activeTab, grid, loads, loadCount,
                   dataTransfer, currentDraggedFolderId, drop, dropCount,
                   create, createCount, lastArrived, trashCount>>
    /\ UNCHANGED notLibTrash

\* the library with its tabs, drags that end anywhere, and the trash can
NextDrag ==
    \/ \E categoryType \in Tabs : ShowFoldersForCategory(categoryType)
    \/ \E l \in LoadIds, ok \in BOOLEAN, filtered \in BOOLEAN :
           LoadArrives(l, ok, filtered)
    \/ \E folderId \in AllFolders : HandleDragStart(folderId)
    \/ DragEnds
    \/ \E categoryType \in Tabs : HandleDropOnCategory(categoryType)
    \/ \E ok \in BOOLEAN : UpdateSettles(ok)
    \/ \E confirmDelete \in BOOLEAN : HandleDropOnTrash(confirmDelete)
    \/ \E ok \in BOOLEAN : DeleteSettles(ok)
    \/ TrashTimerFires

(***************************************************************************)
(* Category tabs of the home page: getLocalCategories, deleteLocalCategory,*)
(* deleteCategoryTab, loadAndRenderCategories.                             *)
(***************************************************************************)
CatDeleteIds == 1..MaxCatDeletes

\* isDeletable of a category the folder types brought in
Undefined == "undefined"

\* the default categories of getLocalCategories, as far as Tabs goes
DefaultCategory(type) ==
    [type_id |-> type, name |-> "default",
     isDeletable |-> IF type = "all" THEN "false" ELSE "true"]

\* the category loadAndRenderCategories adds for a folder type: its name is
\* the type and it has no isDeletable
TypeCategory(type) ==
    [type_id |-> type, name |-> "type", isDeletable |-> Undefined]

NoCatDelete == [st |-> "idle", typeId |-> NoTab, foldersToMove |-> << >>]

TypeIds(categories) == {categories[i].type_id : i \in 1..Len(categories)}

\* the page after the categories 'project' and 'default_2' were deleted, with
\* the tabs the last loadAndRenderCategories rendered
InitCat ==
    /\ localCategories = <<DefaultCategory("all"), DefaultCategory("general"),
                           DefaultCategory("reading")>>
    /\ categoryTabs = <<"all", "general", "reading">>
    /\ catDelete = NoCatDelete
    /\ catDeleteCount = 0
    /\ catLoads = << >>

\* categories.find(cat => cat.type_id === typeId), 0 when there is none
FindCategory(categories, typeId) ==
    IF typeId \in TypeIds(categories)
    THEN CHOOSE i \in 1..Len(categories) :
            /\ categories[i].type_id = typeId
            /\ \A j \in 1..(i - 1) : categories[j].type_id # typeId
    ELSE 0

\* the result of deleteLocalCategory
CanDeleteLocal(categories, typeId) ==
    /\ FindCategory(categories, typeId) > 0
    /\ categories[FindCategory(categories, typeId)].isDeletable # "false"

\* deleteLocalCategory: a deletable category is spliced out and the list is
\* saved
deleteLocalCategory(categories, typeId) ==
    IF CanDeleteLocal(categories, typeId)
    THEN LET k == FindCategory(categories, typeId)
         IN  SubSeq(categories, 1, k - 1)
                \o SubSeq(categories, k + 1, Len(categories))
    ELSE categories

\* renderCategoryTabs
renderCategoryTabs(categories) ==
    [i \in 1..Len(categories) |-> categories[i].type_id]

\* A click on the delete button of a tab (the 'all' tab has none), up to
\* the await: without the category in the local list, or with one that is
\* not deletable, an error toast is shown; a refused confirm ends the call;
\* otherwise GET /folders/ is sent.
DeleteCategoryTab(typeId, confirmDelete) ==
    /\ catDeleteCount < MaxCatDeletes
    /\ catDelete.st \in {"idle", "deleted", "failed"}
    /\ typeId \in {categoryTabs[i] : i \in 1..Len(categoryTabs)}
    /\ IF \/ typeId = "all"
          \/ FindCategory(localCategories, typeId) = 0
          \/ localCategories[FindCategory(localCategories, typeId)].isDeletable
                = "false"
       THEN /\ typeId # "all"
            /\ shownMessage' = "error"
            /\ UNCHANGED <<catDelete, catDeleteCount>>
       ELSE IF ~confirmDelete
       THEN UNCHANGED <<catDelete, catDeleteCount, shownMessage>>
       ELSE /\ catDelete' = [st |-> "listing", typeId |-> typeId,
                             foldersToMove |-> << >>]
            /\ catDeleteCount' = catDeleteCount + 1
            /\ UNCHANGED shownMessage
    /\ UNCHANGED <<localCategories, categoryTabs, catLoads>>
    /\ UNCHANGED <<folderType, tempFolders, activeTab, grid, loads, loadCount,
                   dataTransfer, currentDraggedFolderId, drop, dropCount,
                   create, createCount, lastArrived>>
    /\ UNCHANGED notLibCat

\* folders.filter(folder => folder.folder_type === typeId || ...), in the
\* order of the answer
FoldersToMove(typeId) ==
    LET Of(f) == IF folderType[f] = typeId THEN <<f>> ELSE << >>
    IN  Of("f1") \o Of("f2")

\* After the loop of deleteCategoryTab: deleteLocalCategory; when it
\* succeeds the success toast is shown, loadAndRenderCategories is started
\* (it reads the local categories and sends GET /folders/) and, when the
\* deleted tab is the active one, showFoldersForCategory('all'); when it
\* fails the catch block shows the error toast.
CategoryDeleted(typeId) ==
    IF CanDeleteLocal(localCategories, typeId)
    THEN /\ localCategories' = deleteLocalCategory(localCategories, typeId)
         /\ shownMessage' = "success"
         /\ catLoads' = Append(catLoads,
                           [st |-> "pending",
                            categories |->
                               deleteLocalCategory(localCategories, typeId)])
         /\ catDelete' = [catDelete EXCEPT !.st = "deleted",
                                           !.foldersToMove = << >>]
         /\ IF activeTab = typeId
            THEN /\ loadCount + ReservedLoads < MaxLoads
                 /\ loadCount' = loadCount + 1
                 /\ loads' = [loads EXCEPT
                                ![loadCount + 1] = CategoryLoad("all")]
                 /\ activeTab' = "all"
                 /\ grid' = LoadingGrid(loadCount + 1)
            ELSE UNCHANGED <<loadCount, loads, activeTab, grid>>
    ELSE /\ shownMessage' = "error"
         /\ catDelete' = [catDelete EXCEPT !.st = "failed",
                                           !.foldersToMove = << >>]
         /\ UNCHANGED <<localCategories, catLoads, loadCount, loads,
                        activeTab, grid>>

\* GET /folders/ of deleteCategoryTab is answered: the folders of the
\* category are picked and the first PATCH is sent, or with none of them the
\* category is deleted at once; a failure goes to the catch block.
CatFoldersArrive(ok) ==
    /\ catDelete.st = "listing"
    /\ IF ~ok
       THEN /\ shownMessage' = "error"
            /\ catDelete' = [catDelete EXCEPT !.st = "failed"]
            /\ UNCHANGED <<localCategories, catLoads, loadCount, loads,
                           activeTab, grid>>
       ELSE IF FoldersToMove(catDelete.typeId) # << >>
       THEN /\ catDelete' = [catDelete EXCEPT
                               !.st = "moving",
                               !.foldersToMove = FoldersToMove(catDelete.typeId)]
            /\ UNCHANGED <<shownMessage, localCategories, catLoads, loadCount,
                           loads, activeTab, grid>>
       ELSE CategoryDeleted(catDelete.typeId)
    /\ UNCHANGED <<categoryTabs, catDeleteCount>>
    /\ UNCHANGED <<folderType, tempFolders, dataTransfer,
                   currentDraggedFolderId, drop, dropCount, create,
                   createCount, lastArrived>>
    /\ UNCHANGED notLibCat

\* PATCH /folders/{id} {folder_type: 'general'} is answered: the backend has
\* moved the folder, or the request failed, which is logged only; then the
\* next folder's PATCH is sent, or after the last one the category is
\* deleted.
CatPatchSettles(ok) ==
    /\ catDelete.st = "moving"
    /\ LET folder == Head(catDelete.foldersToMove)
           rest == Tail(catDelete.foldersToMove)
       IN  /\ folderType' =
                 IF ok /\ folderType[folder] # Absent
                 THEN [folderType EXCEPT ![folder] = "general"]
                 ELSE folderType
           /\ IF rest # << >>
              THEN /\ catDelete' = [catDelete EXCEPT !.foldersToMove = rest]
                   /\ UNCHANGED <<shownMessage, localCategories, catLoads,
                                  loadCount, loads, activeTab, grid>>
              ELSE CategoryDeleted(catDelete.typeId)
    /\ UNCHANGED <<categoryTabs, catDeleteCount>>
    /\ UNCHANGED <<tempFolders, dataTransfer, currentDraggedFolderId, drop,
                   dropCount, create, createCount, lastArrived>>
    /\ UNCHANGED notLibCat

\* existingTypes.forEach: a type without a category gets one at the end
RECURSIVE AddExistingTypes(_, _)
AddExistingTypes(categories, types) ==
    IF types = << >> THEN categories
    ELSE AddExistingTypes(
            IF Head(types) \in TypeIds(categories) THEN categories
            ELSE Append(categories, TypeCategory(Head(types))),
            Tail(types))

\* the folder types of the answer of GET /folders/, in its order
ExistingTypes ==
    LET Of(f) == IF folderType[f] # Absent THEN <<folderType[f]>> ELSE << >>
    IN  Of("f1") \o Of("f2")

\* GET /folders/ of loadAndRenderCategories is answered: the folder types
\* without a category are added to the categories the call read at its
\* start and the list is saved, or after a failure the list is left as
\* read; the tabs are rendered and showFoldersForCategory('all') is started.
CatLoadArrives(k, ok) ==
    /\ k \in 1..Len(catLoads)
    /\ catLoads[k].st = "pending"
    /\ loadCount + ReservedLoads < MaxLoads
    /\ LET categories == IF ok
                         THEN AddExistingTypes(catLoads[k].categories,
                                               ExistingTypes)
                         ELSE catLoads[k].categories
       IN  /\ localCategories' = IF ok THEN categories ELSE localCategories
           /\ categoryTabs' = renderCategoryTabs(categories)
           /\ catLoads' = [catLoads EXCEPT ![k] =
                             [st |-> "done", categories |-> categories]]
    /\ loadCount' = loadCount + 1
    /\ loads' = [loads EXCEPT ![loadCount + 1] = CategoryLoad("all")]
    /\ activeTab' = "all"
    /\ grid' = LoadingGrid(loadCount + 1)
    /\ UNCHANGED <<catDelete, catDeleteCount>>
    /\ UNCHANGED <<folderType, tempFolders, dataTransfer,
                   currentDraggedFolderId, drop, dropCount, create,
                   createCount, shownMessage, lastArrived>>
    /\ UNCHANGED notLibCat

\* the library with its tabs, their delete buttons and drops on them
NextCat ==
    \/ \E categoryType \in Tabs : ShowFoldersForCategory(categoryType)
    \/ \E l \in LoadIds, ok \in BOOLEAN, filtered \in BOOLEAN :
           LoadArrives(l, ok, filtered)
    \/ \E folderId \in AllFolders : HandleDragStart(folderId)
    \/ \E categoryType \in Tabs : HandleDropOnCategory(categoryType)
    \/ \E ok \in BOOLEAN : UpdateSettles(ok)
    \/ \E typeId \in Tabs, confirmDelete \in BOOLEAN :
           DeleteCategoryTab(typeId, confirmDelete)
    \/ \E ok \in BOOLEAN : CatFoldersArrive(ok)
    \/ \E ok \in BOOLEAN : CatPatchSettles(ok)
    \/ \E k \in CatDeleteIds, ok \in BOOLEAN : CatLoadArrives(k, ok)

(***************************************************************************)
(* ApiService.request itself, in the dashboard (dashboard-api.js) and in   *)
(* the home page script: how a call ends for each kind of answer.  The     *)
(* abort timer fires at some time while the fetch is pending.              *)
(***************************************************************************)
RequestIds == 1..MaxRequests

Pages == {"dashboard", "home"}

\* the status codes an answer can carry
Statuses == {200, 201, 304, 404, 500}

\* response.ok
ResponseOk_Below400(status) == status >= 200 /\ status <= 399
ResponseOk(status) == status >= 200 /\ status <= 299

\* `HTTP ${response.status}: ${response.statusText}`, and in the dashboard
\* the body of the answer after it when response.text() gave it
HttpErrorMessage(status, errorBody) ==
    <<"HTTP ", ToString(status), ": ", "statusText">>
       \o (IF errorBody THEN <<"\n", "body: ", "errorBody">> ELSE << >>)

NoError == [name |-> "none", message |-> << >>]

\* the errors of fetch and of response.json()
AbortError == [name |-> "AbortError", message |-> <<"The user aborted a request.">>]
NetworkError == [name |-> "TypeError", message |-> <<"Failed to fetch">>]
JsonError == [name |-> "SyntaxError", message |-> <<"Unexpected token">>]

NoRequestCall == [page |-> "none", phase |-> "unused", timer |-> FALSE,
                  status |-> 0, error |-> NoError]

InitReq == requests = [i \in RequestIds |-> NoRequestCall]

\* request up to "await fetch": the timer is set and the fetch is started
Request(i, page) ==
    /\ requests[i].phase = "unused"
    /\ \A j \in RequestIds : j < i => requests[j].phase # "unused"
    /\ requests' = [requests EXCEPT ![i] =
                      [NoRequestCall EXCEPT !.page = page, !.phase = "fetch",
                                            !.timer = TRUE]]
    /\ UNCHANGED notReq

\* the catch block of request: the error is logged and thrown again
Rejected(call, error) ==
    [call EXCEPT !.phase = "rejected", !.timer = FALSE, !.error = error]

\* the timer fires while the fetch is pending: controller.abort()
RequestTimerFires(i) ==
    /\ requests[i].phase = "fetch"
    /\ requests[i].timer
    /\ requests' = [requests EXCEPT ![i] = Rejected(requests[i], AbortError)]
    /\ UNCHANGED notReq

\* fetch rejects: the server cannot be reached
RequestFetchRejects(i) ==
    /\ requests[i].phase = "fetch"
    /\ requests' = [requests EXCEPT ![i] = Rejected(requests[i], NetworkError)]
    /\ UNCHANGED notReq

\* fetch resolves with a response: the timer is cleared; with response.ok
\* response.json() is awaited; without it the home page throws the HTTP
\* error at once and the dashboard first awaits response.text()
RequestFetchResolves(i, status) ==
    /\ requests[i].phase = "fetch"
    /\ requests' = [requests EXCEPT ![i] =
         IF ResponseOk(status)
         THEN [@ EXCEPT !.phase = "json", !.timer = FALSE, !.status = status]
         ELSE IF @.page = "home"
         THEN Rejected([@ EXCEPT !.status = status],
                       [name |-> "Error",
                        message |-> HttpErrorMessage(status, FALSE)])
         ELSE [@ EXCEPT !.phase = "errorBody", !.timer = FALSE,
                        !.status = status]]
    /\ UNCHANGED notReq

\* response.text() of the dashboard's error branch ends: with the body the
\* message gets it appended, without it (the read failed, which is caught
\* and logged) the message stays; then the HTTP error is thrown
RequestErrorBodyDone(i, readable) ==
    /\ requests[i].phase = "errorBody"
    /\ requests' = [requests EXCEPT ![i] =
         Rejected(@, [name |-> "Error",
                      message |-> HttpErrorMessage(@.status, readable)])]
    /\ UNCHANGED notReq

\* response.json() ends: request returns the data, or the parse error is
\* thrown
RequestJsonDone(i, valid) ==
    /\ requests[i].phase = "json"
    /\ requests' = [requests EXCEPT ![i] =
         IF valid THEN [@ EXCEPT !.phase = "resolved"]
         ELSE Rejected(@, JsonError)]
    /\ UNCHANGED notReq

NextReq ==
    \/ \E i \in RequestIds, page \in Pages : Request(i, page)
    \/ \E i \in RequestIds : RequestTimerFires(i)
    \/ \E i \in RequestIds : RequestFetchRejects(i)
    \/ \E i \in RequestIds, status \in Statuses :
          RequestFetchResolves(i, status)
    \/ \E i \in RequestIds, readable \in BOOLEAN :
          RequestErrorBodyDone(i, readable)
    \/ \E i \in RequestIds, valid \in BOOLEAN : RequestJsonDone(i, valid)

(***************************************************************************)
(* Toast of showNotification.  Time is counted in steps of the shortest    *)
(* timer (100 ms); a timer that is due fires before more time passes.      *)
(***************************************************************************)
ToastIds == 1..MaxToasts

\* setTimeout(() => notification.classList.add('show'), 100)
ShowDelay == 100
\* setTimeout(() => { notification.classList.remove('show'); ... }, 5000)
HideDelay == 5000
\* setTimeout(() => { ...removeChild(notification) }, 300)
RemoveDelay == 300

\* the type only picks the colour of the toast
NotificationTypes == {"error"}

\* inBody: the element is a child of document.body; age: the time since
\* showNotification created it; timers: the timers of that call that are
\* still set; hiddenAt: the age at which the 5000 ms timer fired; leftAt
\* (history): the age at which the element left the body
NoToast == [type |-> "none", inBody |-> FALSE, show |-> FALSE, age |-> 0,
            timers |-> {}, hiddenAt |-> 0, leftAt |-> 0]

InitToast == toasts = << >>

\* document.querySelector('.api-notification'): the first one in the body
existingNotification(list) ==
    IF \E i \in 1..Len(list) : list[i].inBody
    THEN CHOOSE i \in 1..Len(list) :
            /\ list[i].inBody
            /\ \A j \in 1..(i - 1) : ~list[j].inBody
    ELSE 0

\* existingNotification.remove()
ExistingRemoved_Kept(list) == list
ExistingRemoved(list) ==
    IF existingNotification(list) = 0 THEN list
    ELSE [list EXCEPT ![existingNotification(list)].inBody = FALSE,
                      ![existingNotification(list)].leftAt =
                         list[existingNotification(list)].age]

\* showNotification: the notification on the page is removed, the new one is
\* appended to the body and its two timers are set
ShowNotification(type) ==
    /\ Len(toasts) < MaxToasts
    /\ toasts' = Append(ExistingRemoved(toasts),
                        [NoToast EXCEPT !.type = type, !.inBody = TRUE,
                                        !.timers = {"show", "hide"}])
    /\ UNCHANGED notToast

\* the age at which a timer of a notification is due
DueAt(toast, timer) ==
    CASE timer = "show" -> ShowDelay
      [] timer = "hide" -> HideDelay
      [] timer = "remove" -> toast.hiddenAt + RemoveDelay

DueTimers(i) == {t \in toasts[i].timers : toasts[i].age >= DueAt(toasts[i], t)}

\* 100 ms pass: no timer is due
ToastTick ==
    /\ \E i \in 1..Len(toasts) : toasts[i].timers # {}
    /\ \A i \in 1..Len(toasts) : DueTimers(i) = {}
    /\ toasts' = [i \in 1..Len(toasts) |->
                    IF toasts[i].timers # {}
                    THEN [toasts[i] EXCEPT !.age = @ + ShowDelay]
                    ELSE toasts[i]]
    /\ UNCHANGED notToast

\* the 100 ms timer: the class 'show' is added
ShowTimerFires(i) ==
    /\ i \in 1..Len(toasts)
    /\ "show" \in DueTimers(i)
    /\ toasts' = [toasts EXCEPT ![i].show = TRUE,
                                ![i].timers = @ \ {"show"}]
    /\ UNCHANGED notToast

\* the 5000 ms timer: the class 'show' is removed and the 300 ms timer set
HideTimerFires(i) ==
    /\ i \in 1..Len(toasts)
    /\ "hide" \in DueTimers(i)
    /\ toasts' = [toasts EXCEPT ![i].show = FALSE,
                                ![i].hiddenAt = toasts[i].age,
                                ![i].timers = (@ \ {"hide"}) \cup {"remove"}]
    /\ UNCHANGED notToast

\* the 300 ms timer: a notification that still has a parent is removed
RemoveTimerFires(i) ==
    /\ i \in 1..Len(toasts)
    /\ "remove" \in DueTimers(i)
    /\ toasts' = [toasts EXCEPT ![i].inBody = FALSE,
                                ![i].leftAt = IF toasts[i].inBody
                                              THEN toasts[i].age ELSE @,
                                ![i].timers = @ \ {"remove"}]
    /\ UNCHANGED notToast

NextToast ==
    \/ \E type \in NotificationTypes : ShowNotification(type)
    \/ ToastTick
    \/ \E i \in ToastIds : ShowTimerFires(i)
    \/ \E i \in ToastIds : HideTimerFires(i)
    \/ \E i \in ToastIds : RemoveTimerFires(i)

Init ==
    /\ InitChat
    /\ InitApi
    /\ InitLib
    /\ InitGraph
    /\ InitDash
    /\ InitConn
    /\ InitTodo
    /\ InitLogin
    /\ InitBar
    /\ InitReport
    /\ InitMemo
    /\ InitTrash
    /\ InitCat
    /\ InitReq
    /\ InitToast

SpecChat == Init /\ [][NextChat]_vars

\* the await of ApiService.post('/query/') ends: its fetch is aborted after
\* API_CONFIG.TIMEOUT at the latest
ChatSettles(i) ==
    \/ \E withId \in BOOLEAN : ChatResponse(i, withId)
    \/ \E error \in QueryErrors : ChatFail(i, error)

SpecChatFair == SpecChat /\ \A i \in ChatIds : WF_vars(ChatSettles(i))

SpecApi == Init /\ [][NextApi]_vars

SpecLib == Init /\ [][NextLib]_vars

SpecCreate == Init /\ [][NextCreate]_vars

SpecGraph == Init /\ [][NextGraph]_vars

SpecDash == Init /\ [][NextDash]_vars

SpecConn == Init /\ [][NextConn]_vars

SpecTodo == Init /\ [][NextTodo]_vars

SpecLogin == Init /\ [][NextLogin]_vars

SpecBar == Init /\ [][NextBar]_vars

SpecReport == Init /\ [][NextReport]_vars

SpecMemo == Init /\ [][NextMemo]_vars

SpecDrag == Init /\ [][NextDrag]_vars

SpecCat == Init /\ [][NextCat]_vars

SpecReq == Init /\ [][NextReq]_vars

SpecToast == Init /\ [][NextToast]_vars

(***************************************************************************)
(* Chat session claims.                                                    *)
(***************************************************************************)
\* C6: the first chat request carries session_id null, and a chat request
\* sent after a /query/ answer delivered a session id (and before the session
\* is cleared) carries that session id, also with several requests pending.
C6_SessionKeptAcrossRequests ==
    /\ chatReqs[1].st # "unused" => chatReqs[1].session_id = NoSession
    /\ \A i \in ChatIds :
         (chatReqs[i].st # "unused" /\ chatReqs[i].after # NoSession)
            => chatReqs[i].session_id = chatReqs[i].after

\* the requests of sendChatMessage that are still awaiting their answer
PendingChat == {i \in ChatIds : chatReqs[i].st = "sent"}

\* The latest clear was confirmed, its DELETE succeeded, every chat request
\* submitted before it has settled and no message was sent since.
ClearSettled ==
    /\ \E d \in ClearIds : clearReqs[d].st = "done" /\ clearReqs[d].gen = chatGen
    /\ \A i \in ChatIds :
         chatReqs[i].st # "unused" => (chatReqs[i].gen < chatGen /\ i \notin PendingChat)

\* C7: after a confirmed clear whose session delete succeeded, once the chat
\* requests pending at that moment have settled, currentChatSession is null
\* and the message list holds no bubble from before the reset.
C7_ClearResetsSession ==
    ClearSettled =>
        /\ currentChatSession = NoSession
        /\ \A k \in 1..Len(chatBarMessages) : chatBarMessages[k].gen >= chatGen

(***************************************************************************)
(* Request timeout and failure reporting claims.                           *)
(***************************************************************************)
Finished(s) == ops[s].status = "done"
Failed(s) == Finished(s) /\ ops[s].err # "none"

\* what the user sees: a timeout-specific message, a toast of any kind
TimeoutShown == {"toast_timeout", "alert_timeout"}
ToastShown == {"toast_timeout", "toast_generic"}

\* C2 as stated: every operation whose request was aborted by its timer shows
\* the timeout-specific message instead of the generic failure message.
C2_TimeoutMessageEverywhere ==
    \A s \in OpIds :
        (Finished(s) /\ ops[s].err = "abort") => ops[s].shown \in TimeoutShown

\* C2 amended: a request is aborted exactly when its configured timeout has
\* elapsed with the fetch still pending, and the timeout-specific message is
\* shown by generateFolderRecommendations and generateReport only; the other
\* ApiService operations treat the abort as any other failure.
C2_TimeoutMessageLongTasksOnly ==
    \A s \in OpIds :
        (Finished(s) /\ ops[s].err = "abort") =>
            /\ ops[s].req.via = "api"
            /\ ops[s].req.elapsed = ops[s].req.timeout
            /\ (ops[s].shown \in TimeoutShown <=> ops[s].op \in {"recommend", "report"})

\* witness: an aborted long task and an aborted plain operation
C2_Witness ==
    \E s \in OpIds :
        /\ Finished(s) /\ ops[s].err = "abort"
        /\ ops[s].op = "recommend" /\ ops[s].shown = "toast_timeout"
        /\ ops[s].req.elapsed = LONG_TASK_TIMEOUT

\* C3 as stated: every pending request is guarded by an abort timer and has
\* settled by the time its timeout has elapsed.
C3_EveryRequestBounded ==
    \A s \in OpIds :
        Running(s) => /\ ops[s].req.via = "api"
                      /\ ops[s].req.elapsed <= ops[s].req.timeout

\* C3 amended: a request issued through ApiService.request has its abort
\* timer armed while its fetch is pending, so the fetch settles within the
\* configured timeout; nothing bounds the reading of the body or a raw fetch.
C3_ApiFetchBounded ==
    \A s \in OpIds :
        (Running(s) /\ ops[s].req.via = "api" /\ ops[s].req.phase = "fetch") =>
            /\ ops[s].req.timer
            /\ ops[s].req.elapsed <= ops[s].req.timeout

\* witness: a fetch still pending when its timeout has elapsed (the timer is
\* due), here the 180 s report generation request
C3_Witness ==
    \E s \in OpIds :
        /\ Running(s) /\ ops[s].req.phase = "fetch" /\ ops[s].req.timer
        /\ ops[s].req.elapsed = REPORT_TIMEOUT

\* C8 as stated: every failed backend request ends in a toast notification.
C8_EveryFailureToasted ==
    \A s \in OpIds : Failed(s) => ops[s].shown \in ToastShown

\* C8 amended: a failure is shown as a toast by extractKeywords,
\* generateFolderRecommendations and uploadPdfFile, as an alert dialog by
\* generateReport, as an inline error by loadFolderDocuments and
\* loadGraphData, and not at all by getChatSessionInfo.
C8_FailureSurfacePerOperation ==
    \A s \in OpIds :
        Failed(s) =>
            /\ ops[s].op \in {"keywords", "recommend", "upload"}
                  => ops[s].shown \in ToastShown
            /\ ops[s].op = "report"
                  => ops[s].shown \in {"alert_timeout", "alert_generic"}
            /\ ops[s].op \in {"folderDocs", "graph"}
                  => ops[s].shown = "inline_generic"
            /\ ops[s].op = "sessionInfo" => ops[s].shown = "none"

\* witness: a failed extractKeywords with its error toast
C8_Witness ==
    \E s \in OpIds :
        Failed(s) /\ ops[s].op = "keywords" /\ ops[s].shown = "toast_generic"

(***************************************************************************)
(* Folder library claims.                                                  *)
(***************************************************************************)
\* no list load is awaiting an answer
LoadsSettled == \A l \in LoadIds : loads[l].st \notin {"pending", "fallback"}

\* the ids of the folders the grid shows
GridFolderIds == {i.id : i \in grid.items}

\* C1: once createNewFolder has ended after a failed POST /folders/ for a
\* non-blank name, localStorage 'tempFolders' holds a record with the
\* trimmed name as title, an id prefixed 'temp_' and isTemporary = true
\* (the record the grid is then re-rendered from).
C1_TempFolderOnFailedCreate ==
    create.st \in {"threw", "savedTemp"} =>
        \E i \in 1..Len(tempFolders) :
            /\ tempFolders[i].title = trim(create.folderName)
            /\ SubSeq(tempFolders[i].folder_id, 1, 5) = "temp_"
            /\ tempFolders[i].isTemporary

\* the drop's update succeeded, nothing was clicked since, the two reloads
\* it started have both been answered and rendered, and the grid shows one
\* of them
DropRefreshed ==
    /\ drop.st = "done" /\ drop.ok
    /\ drop.reload # 0 /\ loadCount = drop.reload
    /\ loads[drop.reload - 1].st = "done"
    /\ loads[drop.reload].st = "done"
    /\ grid.by \in {drop.reload - 1, drop.reload}

\* C4 as stated: once the update request of a drop has succeeded and the
\* list has been re-rendered, the grid shows the folder under the category
\* it was dropped on (that tab, or at least the 'all' tab, is the active
\* one).
C4_FolderShownUnderNewCategory ==
    DropRefreshed =>
        /\ drop.folderId \in GridFolderIds
        /\ activeTab \in {drop.categoryType, "all"}

\* C4 amended: a successful update sets the folder's type at the backend
\* and starts a reload of the unified list and a reload of the tab that was
\* active, which stays the active one; of the two answers the grid shows
\* the one that arrived last, so the folder is in a rendered list exactly
\* if that is the unified list or the active tab is 'all' or the tab
\* dropped on.
C4_DropReloadsActiveTab ==
    (drop.st = "done" /\ drop.ok /\ drop.reload # 0) =>
        /\ folderType[drop.folderId] = drop.categoryType
        /\ loads[drop.reload - 1].fn = "unified"
        /\ loads[drop.reload].fn = "category"
        /\ loads[drop.reload].cat = drop.activeAt
        /\ loadCount = drop.reload => activeTab = drop.activeAt
        /\ DropRefreshed =>
              (drop.folderId \in GridFolderIds
                  <=> \/ grid.by = drop.reload - 1
                      \/ drop.activeAt \in {"all", drop.categoryType})

\* a folder was dropped on a tab other than the active one and other than
\* 'all'; the unified list arrived last and shows the folder while the old
\* tab is still the active one
C4_Witness ==
    /\ DropRefreshed
    /\ grid.by = drop.reload - 1
    /\ drop.folderId \in GridFolderIds
    /\ activeTab \notin {drop.categoryType, "all"}

\* C5: list loads carry no sequence guard: once every pending load has
\* been answered, the grid shows what the answer that arrived last
\* rendered, whichever request it belongs to.
C5_LastArrivalWins ==
    (LoadsSettled /\ lastArrived # 0) =>
        /\ grid.by = lastArrived
        /\ grid.kind # "loading"

\* two loads were pending together and the earlier request's answer
\* arrived last: the grid shows the folders of a category other than the
\* one of the active tab
C5_Witness ==
    /\ LoadsSettled
    /\ lastArrived # 0 /\ lastArrived < loadCount
    /\ loads[lastArrived].fn = "category"
    /\ loads[lastArrived].cat # activeTab
    /\ grid.kind = "folders"
    /\ grid.by = lastArrived

GraphLoadFailed == graphVisualization.load = "failed"

\* C10 as stated: after a failed graph load the view shows a graph drawn
\* from a locally cached or temporary value, not only the error.
C10_GraphFallsBackOnFailure ==
    GraphLoadFailed => graphVisualization.rendered

\* C10 amended: after a failed graph load nothing is drawn: the node and
\* link lists are empty, the loading indicator is hidden, only the load
\* error was shown (until its timer removes it), and isGraphLoaded is set,
\* so that reopening the popup starts no further load.
C10_GraphFailureShowsOnlyError ==
    GraphLoadFailed =>
        /\ graphVisualization.nodes = {}
        /\ graphVisualization.links = {}
        /\ ~graphVisualization.rendered
        /\ ~graphVisualization.loading
        /\ graphVisualization.error \in {"load", "none"}
        /\ isGraphLoaded

\* the popup was closed and reopened after a failed load, the error
\* message is gone and the graph is still empty
C10_Witness ==
    /\ GraphLoadFailed
    /\ popupOverlay = "flex"
    /\ graphVisualization.error = "none"
    /\ ~graphVisualization.rendered

(***************************************************************************)
(* Dashboard theme and layout claims.                                      *)
(***************************************************************************)
\* C11: the theme applied to the page is the one stored under 'theme', and
\* once a theme was chosen with the toggle both are the theme chosen last,
\* also after a page load.
C11_ThemePersisted ==
    /\ dataTheme = localTheme
    /\ lastChosen # "none" => dataTheme = lastChosen

\* the page was loaded again after the toggle chose the theme the system
\* does not prefer
C11_Witness ==
    /\ pageReloaded
    /\ lastChosen = "dark" /\ ~prefersDark
    /\ dataTheme = "dark"

\* C14: localStorage 'dashboardModules' holds the modules of the two zones
\* in their order: the stored layout is the layout the last add or remove
\* left, and the globals and the zone containers, also as a page load
\* rebuilds them from the storage, hold the same ids and types in the same
\* zones and order.
C14_LayoutPersisted ==
    /\ storedModules.kind = "absent" => dashboardModules = NoModules
    /\ storedModules.kind = "object" =>
           Layout(LoadedModules(storedModules)) = lastLayout
    /\ Layout(dashboardModules) = lastLayout
    /\ moduleDom = RenderedIds(dashboardModules)

\* a page load has restored one module in each zone from the storage
C14_Witness ==
    /\ pageReloaded
    /\ Len(dashboardModules.right) = 1 /\ Len(dashboardModules.bottom) = 1
    /\ dashboardModules.right[1].createdAt = "string"
    /\ moduleDom.bottom = << dashboardModules.bottom[1].id >>

\* C12: sendChatMessage never rejects: whichever way the request to /query/
\* ends, the promise resolves; when the request fails (status, network,
\* abort, body) it resolves with the canned answer without sources, with
\* agent_type 'error' and confidence 0, and currentChatSession stays as it was.
C12_OfflineAnswer ==
    [][\A i \in ChatIds :
         (chatReqs[i].st = "sent" /\ chatReqs'[i].st # "sent") =>
             /\ chatReqs'[i].outcome = "resolved"
             /\ chatReqs'[i].st = "failed" =>
                    /\ chatReqs'[i].ret.answer = <<"canned">>
                    /\ chatReqs'[i].ret.sources = "null"
                    /\ chatReqs'[i].ret.agent_type = "error"
                    /\ chatReqs'[i].ret.confidence = 0
                    /\ currentChatSession' = currentChatSession
                    /\ chatReqs'[i].ret.session_id = currentChatSession]_vars

\* a request failed while a session was open, and its canned answer is shown
C12_Witness ==
    \E i \in ChatIds :
        /\ chatReqs[i].st = "failed"
        /\ currentChatSession # NoSession
        /\ chatReqs[i].ret.session_id = currentChatSession
        /\ \E k \in 1..Len(chatBarMessages) :
               /\ chatBarMessages[k].req = i
               /\ chatBarMessages[k].message = <<"canned">>

\* every check that started is over and no timer runs
ConnQuiet ==
    /\ connCount > 0
    /\ \A k \in 1..2 : autoTimers[k] = NoTimer
    /\ \A c \in ConnIds : connChecks[c].st # "pending" /\ connChecks[c].left = NoTimer

\* C13: once all connection checks and their delayed status updates have
\* run, the chat status line shows the ready message if the check that
\* started last succeeded and the start-the-backend message if it failed.
C13_StatusTracksLastCheck ==
    ConnQuiet =>
        chatStatus.message =
            IF connChecks[connCount].st = "success" THEN "ready"
            ELSE "startBackend"

\* C15: the todo list is backed by localStorage: after any sequence of
\* addTodo, toggleTodo, togglePriority and removeTodo, a new TodoManager
\* (page load) gets exactly the todo list as it is.
C15_TodosPersisted == getLocalTodos(userTodos) = todos

\* C16: in every state of LoginPage the name input and the confirm-password
\* input are in the form exactly when isLogin is false, and every
\* toggleMode flips isLogin.
C16_SignupFieldsFollowMode ==
    /\ [](/\ "name" \in loginFields <=> ~isLogin
          /\ "confirmPassword" \in loginFields <=> ~isLogin)
    /\ [][loginEvent' = "toggle" => isLogin' = ~isLogin]_vars

\* signup mode was left again after its two inputs were filled: the form
\* shows neither of them
C16_Witness ==
    /\ loginEvent = "toggle" /\ isLogin /\ loginAlert = "signup"
    /\ "name" \notin loginFields /\ "confirmPassword" \notin loginFields

\* the timeout the spec gives the request of step `step` of operation op
SpecTimeout(op, step) ==
    IF op = "recommend" THEN 120000
    ELSE IF op = "report" /\ step = 2 THEN 180000
    ELSE 30000

\* timeouts a caller may pass to postLongTask
CallerTimeouts == {0, 1000, API_TIMEOUT, LONG_TASK_TIMEOUT, REPORT_TIMEOUT}

\* C17: while the fetch of a request made through ApiService is pending, its
\* abort timer is armed with 30 000 ms for get, post, put and delete, with
\* 120 000 ms for /recommend/from-file and with 180 000 ms for
\* /reports/generate; a timeout the caller passes replaces the default.
C17_TimeoutPerRequest ==
    /\ \A s \in OpIds :
           (Running(s) /\ ops[s].req.via = "api" /\ ops[s].req.phase = "fetch") =>
               /\ ops[s].req.timer
               /\ ops[s].req.timeout = SpecTimeout(ops[s].op, ops[s].step)
    /\ \A t \in CallerTimeouts : ApiRequest(PostLongTask(t)).timeout = t
    /\ \A o \in {ApiGet, ApiPost, ApiPut, ApiDelete} :
           ApiRequest(o).timeout = 30000

\* the report generation request is still pending after 150 s, its timer
\* of 180 s armed
C17_Witness ==
    \E s \in OpIds :
        /\ Running(s) /\ ops[s].op = "report" /\ ops[s].step = 2
        /\ ops[s].req.phase = "fetch" /\ ops[s].req.timer
        /\ ops[s].req.timeout = REPORT_TIMEOUT
        /\ ops[s].req.elapsed = 150000

\* the bubbles of the message list that belong to request i
BubblesOf(i, type) ==
    {k \in 1..Len(chatBarMessages) :
        chatBarMessages[k].req = i /\ chatBarMessages[k].type = type}

\* what the AI bubble of a request that ended shows
AnswerTexts == {<<"answer">>, <<"canned">>}

\* the bubbles appended for the requests so far: one user bubble with the
\* trimmed text for each at once, one AI bubble once it has ended, none for
\* slots no message has used, and nothing in the list from anything else
BubblesMatchRequests ==
    /\ \A i \in ChatIds :
         /\ chatReqs[i].st # "unused" <=> i <= chatCount
         /\ chatReqs[i].userBubbles = IF chatReqs[i].st = "unused" THEN 0 ELSE 1
         /\ chatReqs[i].aiBubbles =
                IF chatReqs[i].st \in {"done", "failed"} THEN 1 ELSE 0
         /\ Cardinality(BubblesOf(i, "user")) <= chatReqs[i].userBubbles
         /\ Cardinality(BubblesOf(i, "ai")) <= chatReqs[i].aiBubbles
    /\ \A k \in 1..Len(chatBarMessages) :
         /\ chatBarMessages[k].req \in 1..chatCount
         /\ chatBarMessages[k].type = "user" => chatBarMessages[k].message = <<"q">>
         /\ chatBarMessages[k].type = "ai" => chatBarMessages[k].message \in AnswerTexts

C19_AtMostOneBarOpen == Cardinality(openBars) <= 1

\* the screens of the report module that are displayed
VisibleScreens == {x \in Screens : reportScreens[x]}

\* C20: at most one of the four screens of a report module (initial,
\* generating, completed, detail) is displayed at any time, under every
\* interleaving of generateReport, viewReportFromHistory, showReportDetail,
\* hideReportDetail and resetReportModule with their pending responses and
\* the delayed switch to the completed screen.
C20_AtMostOneScreen == Cardinality(VisibleScreens) <= 1

(***************************************************************************)
(* Memo module claims.                                                     *)
(***************************************************************************)
\* C21: saveMemoFromForm is neither locked nor de-duplicated.  Enter in the
\* content input of a form that has a folder and content issues one more
\* createMemo request with the trimmed content of the form, however many
\* earlier requests of that form are still awaited; a request that is
\* answered adds its content to the backend's memos whether or not that
\* content is there already.
C21_NoLockOnSave ==
    /\ [][/\ memoGesture'.n # memoGesture.n
          /\ memoGesture'.via = "enter"
          /\ memoGesture'.folder # NoFolder
          /\ trim(memoForm.content) # << >>
          => /\ Len(memoSaves') = Len(memoSaves) + 1
             /\ memoSaves'[Len(memoSaves')].phase = "creating"
             /\ memoSaves'[Len(memoSaves')].content = trim(memoForm.content)
             /\ PendingCreates(memoSaves') =
                   PendingCreates(memoSaves) \cup {Len(memoSaves')}]_vars
    /\ [][\A i \in GestureIds :
             CreateMemoArrives(i)
             => backendMemos' = Append(backendMemos, memoSaves[i].content)]_vars

\* Enter was pressed while an earlier createMemo of the form was awaited, and
\* the backend has stored the two requests' one text twice
C21_Witness ==
    \E i, j \in 1..Len(backendMemos) :
       /\ i < j
       /\ backendMemos[i] = backendMemos[j]
       /\ \E s, t \in 1..Len(memoSaves) :
             /\ s < t
             /\ memoSaves[s].phase \in {"listing", "saved"}
             /\ memoSaves[t].phase \in {"listing", "saved"}
             /\ memoSaves[s].content = memoSaves[t].content
             /\ memoGesture.n = memoSaves[t].gesture
             /\ memoGesture.via = "enter"
             /\ memoGesture.pending > 0

(***************************************************************************)
(* Drag and drop claims.                                                   *)
(***************************************************************************)
\* window.currentDraggedFolderId is set only while a folder is dragged or a
\* drop handler is still working on the drop
DraggedIdOnlyDuringDrag ==
    currentDraggedFolderId # Null
    => \/ dataTransfer # Null
       \/ drop.st = "updating"
       \/ trash.st = "deleting"

\* a drop that carries no folder id starts no update and no deletion
NoLeftOverIdUsed ==
    /\ dataTransfer = Null
    /\ \/ dropCount' # dropCount
       \/ trashCount' # trashCount
    => /\ drop' = drop
       /\ trash' = trash

\* C22: window.currentDraggedFolderId is non-null only between the start of
\* a folder drag and the end of that drag's drop handling, and a drop on the
\* trash can or on a category tab never deletes or moves a folder whose id
\* was left over from an earlier drag.
C22_NoLeftOverDraggedId ==
    /\ []DraggedIdOnlyDuringDrag
    /\ [][NoLeftOverIdUsed]_vars

(***************************************************************************)
(* Category tab claims.                                                    *)
(***************************************************************************)
\* the backend folders that carry a type
FoldersOfType(types, typeId) ==
    {f \in AllFolders : types[f] = typeId}

\* deleteCategoryTab shows its success toast: no folder has the type then
DeletedCategoryHasNoFolders ==
    catDelete'.st = "deleted" /\ catDelete.st # "deleted"
    => FoldersOfType(folderType', catDelete'.typeId) = {}

\* the loadAndRenderCategories that the deletion started gets its answer:
\* the deleted category is not among the categories it saves and renders
DeletedCategoryStaysDeleted ==
    /\ catDelete.st = "deleted"
    /\ catLoads[Len(catLoads)].st = "pending"
    /\ catLoads'[Len(catLoads)].st = "done"
    => catDelete.typeId \notin TypeIds(catLoads'[Len(catLoads)].categories)

\* C23: whenever deleteCategoryTab reports that a category was deleted,
\* every backend folder that had the category as its type has been moved to
\* 'general': no folder carries the deleted type, and the next
\* loadAndRenderCategories does not create the category again from the
\* folder types.
C23_DeletedCategoryIsEmpty ==
    /\ [][DeletedCategoryHasNoFolders]_vars
    /\ [][DeletedCategoryStaysDeleted]_vars

(***************************************************************************)
(* ApiService.request claims.                                              *)
(***************************************************************************)
\* the message has the text somewhere in it
Contains(message, text) == \E k \in 1..Len(message) : message[k] = text

\* the calls that got a response with a status outside 200..299
Non2xx == {i \in RequestIds :
             /\ requests[i].status # 0
             /\ (requests[i].status < 200 \/ requests[i].status > 299)}

\* C24: ApiService.request never resolves for a non-2xx response, in the
\* dashboard and in the home page: the call does not go on to read the
\* answer as data, and it ends rejected with an Error whose message
\* contains the status code (in the home page in the step the response
\* arrives, in the dashboard once the error body was read or has failed).
C24_Non2xxRejects ==
    \A i \in Non2xx :
       /\ requests[i].phase \in {"errorBody", "rejected"}
       /\ requests[i].page = "home" => requests[i].phase = "rejected"
       /\ requests[i].phase = "rejected"
          => /\ requests[i].error.name = "Error"
             /\ Contains(requests[i].error.message,
                         ToString(requests[i].status))

\* a dashboard call and a home page call have both been rejected for a
\* non-2xx response
C24_Witness ==
    \E i, j \in Non2xx :
       /\ requests[i].page = "dashboard"
       /\ requests[j].page = "home"
       /\ requests[i].phase = "rejected"
       /\ requests[j].phase = "rejected"
       /\ requests[i].status = 304
       /\ requests[j].status = 500

(***************************************************************************)
(* Toast claims.                                                           *)
(***************************************************************************)
\* the notifications that are on the page
InBody == {i \in 1..Len(toasts) : toasts[i].inBody}

\* C25: a toast of showNotification is on the page for HideDelay +
\* RemoveDelay (5.3 s) at most, and for less when a newer one replaces it:
\* time does not pass that age with the toast on the page, a toast followed
\* by a newer one is off the page, and at most one toast is on the page.
C25_ToastRemoved ==
    /\ Cardinality(InBody) <= 1
    /\ \A i \in InBody :
          /\ toasts[i].age <= HideDelay + RemoveDelay
          /\ toasts[i].timers # {}
          /\ i = Len(toasts)
    /\ \A i \in 1..Len(toasts) :
          ~toasts[i].inBody => toasts[i].leftAt <= HideDelay + RemoveDelay

\* one toast was replaced by a newer one, another was taken off the page by
\* its own timer 5.3 s after it was shown
C25_Witness ==
    \E i, j \in 1..Len(toasts) :
       /\ ~toasts[i].inBody
       /\ toasts[i].leftAt < HideDelay
       /\ i < j
       /\ ~toasts[j].inBody
       /\ toasts[j].leftAt = HideDelay + RemoveDelay
       /\ j = Len(toasts)

====
